---- MODULE Spec2Model ----
(***************************************************************************)
(* Dev Environment Readyifier: the wizard (scripts/gui_manager.py), the    *)
(* tool installer (scripts/installer.py), the detector                     *)
(* (scripts/detector.py) and the CLI configurator                          *)
(* (scripts/configurator.py), modelled as state machines.                  *)
(***************************************************************************)
EXTENDS Integers, Sequences, FiniteSets, TLC

(***************************************************************************)
(* Bounds of the model.                                                    *)
(***************************************************************************)
\* longest list handed to install_missing_tools / longest selected_tools dict
MaxList == 2
\* calls made on one ToolInstaller object
MaxCalls == 1
\* how many message boxes are kept in the record of those shown
MaxDialogs == 1
\* how many clicks of the operator one session of the wizard is followed for
MaxEvents == 7
\* calls of one method made one after the other on one ToolInstaller, where
\* repeated calls are followed
MaxApplies == 2

(***************************************************************************)
(* The static registry.                                                    *)
(***************************************************************************)
None == "None"

\* the tools for which _apply_tool_config copies .cursorrules
IdeTools == {"vscode", "vscode_insiders", "trae", "void"}

AiTools == {"cline", "roo", "aider"}

\* populate_selection_tab's all_tools, in dict insertion order
all_tools == <<"vscode", "vscode_insiders", "trae", "void", "cline", "roo", "aider">>

AllTools == {all_tools[i] : i \in 1..Len(all_tools)}

\* platform.system(); "Other" stands for any value that is none of the three
OsTypes == {"Darwin", "Linux", "Windows", "Other"}

SecurityLevels == {"standard", "enhanced"}

\* what an external command does: exit 0, exit non-zero, or subprocess.run raises
CmdOutcomes == {"ok", "nonzero", "raise"}

(***************************************************************************)
(* installer.py: install actions.                                          *)
(***************************************************************************)
\* _run_command: True iff the command ran and returned 0; an exception is caught
_run_command(outcome) == outcome = "ok"

_install_vscode(os, outcome) ==
    IF os = "Darwin" THEN _run_command(outcome)
    ELSE IF os = "Linux" THEN _run_command(outcome)
    ELSE FALSE

_install_vscode_insiders(os, outcome) ==
    IF os = "Darwin" THEN _run_command(outcome)
    ELSE IF os = "Linux" THEN _run_command(outcome)
    ELSE FALSE

_install_trae == FALSE

_install_void == FALSE

_install_pip(outcome) == _run_command(outcome)

\* _install_tool as it would be if an unregistered identifier counted as
\* installed
_install_tool_lenient(tool, os, outcome) ==
    CASE tool = "vscode" -> _install_vscode(os, outcome)
      [] tool = "vscode_insiders" -> _install_vscode_insiders(os, outcome)
      [] tool = "trae" -> _install_trae
      [] tool = "void" -> _install_void
      [] tool = "cline" -> _install_pip(outcome)
      [] tool = "roo" -> _install_pip(outcome)
      [] tool = "aider" -> _install_pip(outcome)
      [] OTHER -> TRUE

_install_tool(tool, os, outcome) ==
    CASE tool = "vscode" -> _install_vscode(os, outcome)
      [] tool = "vscode_insiders" -> _install_vscode_insiders(os, outcome)
      [] tool = "trae" -> _install_trae
      [] tool = "void" -> _install_void
      [] tool = "cline" -> _install_pip(outcome)
      [] tool = "roo" -> _install_pip(outcome)
      [] tool = "aider" -> _install_pip(outcome)
      [] OTHER -> FALSE

\* whether _install_tool(tool) reaches _run_command on this OS
RunsCommand(tool, os) ==
    \/ tool \in {"vscode", "vscode_insiders"} /\ os \in {"Darwin", "Linux"}
    \/ tool \in {"cline", "roo", "aider"}

\* what can happen when tools[i] is installed: one of the three outcomes of the
\* command, or "none" when no command is run
OutcomesFor(tools, os) ==
    {outs \in [1..Len(tools) -> CmdOutcomes \cup {"none"}] :
        \A i \in 1..Len(tools) : outs[i] = "none" <=> ~RunsCommand(tools[i], os)}

(***************************************************************************)
(* installer.py: the path resolver.                                        *)
(***************************************************************************)
\* the directory name as it would be if both editions shared one
CodeDirNameShared(tool) == "Code"

CodeDirName(tool) == IF tool = "vscode" THEN "Code" ELSE "Code - Insiders"

\* the resolver as it would be without its Windows branch
ResolveWithoutWindows(tool, os) ==
    IF tool = "vscode" \/ tool = "vscode_insiders" THEN
        IF os = "Darwin" THEN <<"~", "Library", "Application Support", CodeDirName(tool), "User">>
        ELSE IF os = "Linux" THEN <<"~", ".config", CodeDirName(tool), "User">>
        ELSE <<None>>
    ELSE IF tool \in {"trae", "void", "cline", "roo", "aider"} THEN <<"~", ".config", tool>>
    ELSE <<None>>

_get_tool_config_dir(tool, os) ==
    IF tool = "vscode" \/ tool = "vscode_insiders" THEN
        IF os = "Darwin" THEN <<"~", "Library", "Application Support", CodeDirName(tool), "User">>
        ELSE IF os = "Linux" THEN <<"~", ".config", CodeDirName(tool), "User">>
        ELSE IF os = "Windows" THEN <<"~", "AppData", "Roaming", CodeDirName(tool), "User">>
        ELSE <<None>>
    ELSE IF tool = "trae" THEN <<"~", ".config", "trae">>
    ELSE IF tool = "void" THEN <<"~", ".config", "void">>
    ELSE IF tool = "cline" THEN <<"~", ".config", "cline">>
    ELSE IF tool = "roo" THEN <<"~", ".config", "roo">>
    ELSE IF tool = "aider" THEN <<"~", ".config", "aider">>
    ELSE <<None>>

(***************************************************************************)
(* The file system the installer reads and writes.                         *)
(***************************************************************************)
\* file names that occur in a tool's configuration directory
FileNames == {".cursorrules", "security_config.json", "settings.json", "keybindings.json"}

\* who wrote a file: nobody (no such file), the operator, or one of the layers
Missing == "missing"

\* every configuration directory of the registry on one OS
ConfigDirs(os) == {_get_tool_config_dir(t, os) : t \in AllTools} \ {<<None>>}

NoFiles == [f \in FileNames |-> Missing]

\* a directory that does not exist yet and can be created
AbsentDir ==
    [exists |-> FALSE, writable |-> TRUE, files |-> NoFiles, subdir |-> Missing,
     readonly |-> {}]

\* a directory that cannot be created or written (permissions)
LockedDir ==
    [exists |-> FALSE, writable |-> FALSE, files |-> NoFiles, subdir |-> Missing,
     readonly |-> {}]

\* a directory the operator already uses
UserDir ==
    [exists |-> TRUE, writable |-> TRUE,
     files |-> [f \in FileNames |-> IF f \in {"settings.json", "keybindings.json"} THEN "user" ELSE Missing],
     subdir |-> Missing, readonly |-> {}]

InitDirStates == {AbsentDir, LockedDir, UserDir}

\* the layouts of configs/<tool> considered: no directory, files only (one of
\* them or all the names the other layers write too), a subdirectory only, both
ConfigLayouts ==
    { [exists |-> FALSE, files |-> {}, subdir |-> FALSE, dirs_first |-> FALSE],
      [exists |-> TRUE, files |-> {"settings.json"}, subdir |-> FALSE, dirs_first |-> FALSE],
      [exists |-> TRUE, files |-> {".cursorrules", "security_config.json", "settings.json"},
       subdir |-> FALSE, dirs_first |-> FALSE],
      [exists |-> TRUE, files |-> {}, subdir |-> TRUE, dirs_first |-> TRUE],
      [exists |-> TRUE, files |-> {"settings.json"}, subdir |-> TRUE, dirs_first |-> TRUE],
      [exists |-> TRUE, files |-> {"settings.json"}, subdir |-> TRUE, dirs_first |-> FALSE] }

\* templates/reference is not there
NoReferenceTemplate == [exists |-> FALSE, files |-> {}, subdirs |-> {}]

\* what templates/reference may hold: files, and subdirectories with files in
\* them, one named like a category and one named otherwise
ReferenceTemplates ==
    {NoReferenceTemplate} \cup
    [exists : {TRUE}, files : SUBSET {"README.md"}, subdirs : SUBSET {"org", "examples"}]

\* the template sources on disk: templates/ai_rules/.cursorrules,
\* templates/security/<level>.json, configs/<tool>/, and whether these files
\* carry no write permission (readonly)
TemplateStates ==
    [rules : BOOLEAN,
     security : {{}, {"standard"}, {"standard", "enhanced"}},
     configs : ConfigLayouts,
     readonly : BOOLEAN,
     reference : {NoReferenceTemplate}]

\* os.makedirs(d, exist_ok=True)
makedirs(fs, d) ==
    IF fs[d].exists THEN [raised |-> FALSE, fs |-> fs]
    ELSE IF ~fs[d].writable THEN [raised |-> TRUE, fs |-> fs]
    ELSE [raised |-> FALSE, fs |-> [fs EXCEPT ![d].exists = TRUE]]

\* shutil.copy / shutil.copy2 of an existing source file to d/name: the
\* destination is opened for writing, which a file without write permission
\* refuses, and it is given the content and the permission bits of the
\* source (ro: the source has no write permission)
copy(fs, d, name, content, ro) ==
    IF ~fs[d].exists \/ ~fs[d].writable \/ name \in fs[d].readonly
    THEN [raised |-> TRUE, fs |-> fs]
    ELSE [raised |-> FALSE,
          fs |-> [fs EXCEPT ![d].files[name] = content,
                            ![d].readonly = IF ro THEN @ \cup {name} ELSE @ \ {name}]]

\* shutil.copytree(s, d/sub, dirs_exist_ok=True): creates d/sub and its parents
\* with copy2 for every file in it
copytree(fs, d, content, ro) ==
    IF ~fs[d].writable \/ "subdir" \in fs[d].readonly THEN [raised |-> TRUE, fs |-> fs]
    ELSE [raised |-> FALSE,
          fs |-> [fs EXCEPT ![d].exists = TRUE, ![d].subdir = content,
                            ![d].readonly = IF ro THEN @ \cup {"subdir"} ELSE @]]

\* the files of configs/<tool> copied one after the other
RECURSIVE CopyFiles(_, _, _, _)
CopyFiles(fs, d, names, ro) ==
    IF names = {} THEN [raised |-> FALSE, fs |-> fs]
    ELSE LET n == CHOOSE x \in names : TRUE
             r == copy(fs, d, n, "tool", ro)
         IN  IF r.raised THEN r ELSE CopyFiles(r.fs, d, names \ {n}, ro)

\* the loop over os.listdir(tool_config_src)
CopyToolItems(fs, d, layout, ro) ==
    IF layout.subdir /\ layout.dirs_first THEN
        LET t == copytree(fs, d, "tool", ro)
        IN  IF t.raised THEN t ELSE CopyFiles(t.fs, d, layout.files, ro)
    ELSE
        LET c == CopyFiles(fs, d, layout.files, ro)
        IN  IF c.raised \/ ~layout.subdir THEN c ELSE copytree(c.fs, d, "tool", ro)

(***************************************************************************)
(* installer.py: _apply_tool_config, layer by layer.  Every layer returns  *)
(* what the function does next ("next": go on to the following layer,      *)
(* "false": return False, "raise": an exception reaches the except clause) *)
(* and the file system it leaves.                                          *)
(***************************************************************************)
\* "Apply AI rules": only for the four IDEs; the source is copied unchecked
RulesLayer(tool, os, tpl, fs) ==
    IF tool \in IdeTools THEN
        LET dest == _get_tool_config_dir(tool, os)
        IN  IF dest # <<None>> THEN
                LET m == makedirs(fs, dest)
                IN  IF m.raised THEN [go |-> "raise", fs |-> m.fs]
                    ELSE IF ~tpl.rules THEN [go |-> "raise", fs |-> m.fs]
                    ELSE LET c == copy(m.fs, dest, ".cursorrules", "rules", tpl.readonly)
                         IN  [go |-> IF c.raised THEN "raise" ELSE "next", fs |-> c.fs]
            ELSE [go |-> "false", fs |-> fs]
    ELSE [go |-> "next", fs |-> fs]

\* "Apply security configurations": skipped when <level>.json does not exist
SecurityLayer(tool, os, security_level, tpl, fs) ==
    IF security_level \in tpl.security THEN
        LET dest == _get_tool_config_dir(tool, os)
        IN  IF dest # <<None>> THEN
                LET m == makedirs(fs, dest)
                IN  IF m.raised THEN [go |-> "raise", fs |-> m.fs]
                    ELSE LET c == copy(m.fs, dest, "security_config.json", security_level, tpl.readonly)
                         IN  [go |-> IF c.raised THEN "raise" ELSE "next", fs |-> c.fs]
            ELSE [go |-> "false", fs |-> fs]
    ELSE [go |-> "next", fs |-> fs]

\* "Apply tool-specific configurations": skipped when configs/<tool> does not
\* exist; the destination directory is not created here
ToolLayer(tool, os, tpl, fs) ==
    IF tpl.configs.exists THEN
        LET dest == _get_tool_config_dir(tool, os)
        IN  IF dest # <<None>> THEN
                LET c == CopyToolItems(fs, dest, tpl.configs, tpl.readonly)
                IN  [go |-> IF c.raised THEN "raise" ELSE "next", fs |-> c.fs]
            ELSE [go |-> "false", fs |-> fs]
    ELSE [go |-> "next", fs |-> fs]

\* _get_repo_base_dir: dirname(dirname(abspath(__file__))), always a path
_get_repo_base_dir == <<"repo">>

\* the result of _apply_tool_config: its return value and the file system after it
_apply_tool_config(tool, os, security_level, tpl, fs) ==
    IF _get_repo_base_dir = <<None>> THEN [ok |-> FALSE, fs |-> fs]
    ELSE
    LET r == RulesLayer(tool, os, tpl, fs)
    IN  IF r.go # "next" THEN [ok |-> FALSE, fs |-> r.fs]
        ELSE LET s == SecurityLayer(tool, os, security_level, tpl, r.fs)
             IN  IF s.go # "next" THEN [ok |-> FALSE, fs |-> s.fs]
                 ELSE LET t == ToolLayer(tool, os, tpl, s.fs)
                      IN  IF t.go # "next" THEN [ok |-> FALSE, fs |-> t.fs]
                          ELSE [ok |-> TRUE, fs |-> t.fs]

(***************************************************************************)
(* installer.py: the reference structure.                                  *)
(***************************************************************************)
ReferenceSubdirs == {"org", "tech", "security", "api", "workflow"}

\* the reference directory under the projects directory, before any run:
\* its subdirectories, the template items copied into it (copied), and
\* whether those copies carry no write permission
AbsentReference ==
    [exists |-> FALSE, writable |-> TRUE, subdirs |-> {}, copied |-> {}, readonly |-> FALSE]

LockedReference ==
    [exists |-> FALSE, writable |-> FALSE, subdirs |-> {}, copied |-> {}, readonly |-> FALSE]

\* a reference directory the operator already keeps, with a subdirectory
UsedReference ==
    [exists |-> TRUE, writable |-> TRUE, subdirs |-> {"notes"}, copied |-> {}, readonly |-> FALSE]

\* "Copy template files if they exist": copy2 for a file, copytree with
\* dirs_exist_ok for a directory; writing over a copy that has no write
\* permission raises
CopyReferenceItems(ref, tpl) ==
    LET items == tpl.reference.files \cup tpl.reference.subdirs
    IN  IF ref.readonly /\ items \cap ref.copied # {} THEN [raised |-> TRUE, ref |-> ref]
        ELSE [raised |-> FALSE,
              ref |-> [ref EXCEPT !.subdirs = @ \cup tpl.reference.subdirs,
                                  !.copied = @ \cup items,
                                  !.readonly = IF items = {} THEN @ ELSE tpl.readonly]]

\* _setup_reference_structure: its return value and the directory after it;
\* a makedirs or a copy that raises is caught and gives False
_setup_reference_structure(ref, tpl) ==
    IF _get_repo_base_dir = <<None>> THEN [ok |-> FALSE, ref |-> ref]
    ELSE IF ~ref.exists /\ ~ref.writable THEN [ok |-> FALSE, ref |-> ref]
    ELSE IF ~ref.writable /\ ~(ReferenceSubdirs \subseteq ref.subdirs) THEN [ok |-> FALSE, ref |-> ref]
    ELSE LET made == [ref EXCEPT !.exists = TRUE, !.subdirs = @ \cup ReferenceSubdirs]
         IN  IF ~tpl.reference.exists THEN [ok |-> TRUE, ref |-> made]
             ELSE LET c == CopyReferenceItems(made, tpl)
                  IN  [ok |-> ~c.raised, ref |-> c.ref]

(***************************************************************************)
(* installer.py: the two passes of ToolInstaller.                          *)
(***************************************************************************)
\* a dict is a sequence of <<key, value>> pairs in insertion order
Keys(dict) == {dict[i][1] : i \in 1..Len(dict)}

IsDict(dict) == \A i, j \in 1..Len(dict) : dict[i][1] = dict[j][1] => i = j

\* [key for key, value in dict.items() if value]
RECURSIVE TrueKeys(_)
TrueKeys(dict) ==
    IF dict = <<>> THEN <<>>
    ELSE IF Head(dict)[2] THEN <<Head(dict)[1]>> \o TrueKeys(Tail(dict))
    ELSE TrueKeys(Tail(dict))

\* a line of output: what is being done to which item, and how it went
Line(op, tool, msg) == [op |-> op, tool |-> tool, msg |-> msg]

\* the loop of install_missing_tools from position i on; acc holds
\* self.install_results and the lines printed
RECURSIVE InstallLoop(_, _, _, _, _)
\* the loop as it would be if a failed install ended the pass
InstallLoopStopsAtFailure(acc, tools, outs, os, i) ==
    IF i > Len(tools) THEN acc
    ELSE LET started == Append(acc.log, Line("install", tools[i], "start"))
         IN  IF _install_tool(tools[i], os, outs[i])
             THEN InstallLoop(
                      [acc EXCEPT !.results.success = Append(@, tools[i]),
                                  !.log = Append(started, Line("install", tools[i], "ok"))],
                      tools, outs, os, i + 1)
             ELSE [acc EXCEPT !.results.failed = Append(@, tools[i]),
                              !.log = Append(started, Line("install", tools[i], "failed"))]

InstallLoop(acc, tools, outs, os, i) ==
    IF i > Len(tools) THEN acc
    ELSE LET started == Append(acc.log, Line("install", tools[i], "start"))
         IN  IF _install_tool(tools[i], os, outs[i])
             THEN InstallLoop(
                      [acc EXCEPT !.results.success = Append(@, tools[i]),
                                  !.log = Append(started, Line("install", tools[i], "ok"))],
                      tools, outs, os, i + 1)
             ELSE InstallLoop(
                      [acc EXCEPT !.results.failed = Append(@, tools[i]),
                                  !.log = Append(started, Line("install", tools[i], "failed"))],
                      tools, outs, os, i + 1)

\* install_missing_tools: self.install_results after the call (also returned)
\* and the lines printed
install_missing_tools(results, tools, outs, os) ==
    InstallLoop([results |-> results, log |-> <<>>], tools, outs, os, 1)

\* the per-tool loop as it would be without "if not selected: continue"
RECURSIVE ConfigLoopEveryKey(_, _, _, _, _, _)
ConfigLoopEveryKey(acc, dict, i, os, security_level, tpl) ==
    IF i > Len(dict) THEN acc
    ELSE LET r == _apply_tool_config(dict[i][1], os, security_level, tpl, acc.fs)
             started == Append(acc.log, Line("configure", dict[i][1], "start"))
         IN  ConfigLoopEveryKey(
                 [acc EXCEPT !.fs = r.fs,
                             !.success = IF r.ok THEN Append(@, dict[i][1]) ELSE @,
                             !.failed = IF r.ok THEN @ ELSE Append(@, dict[i][1]),
                             !.log = Append(started,
                                 Line("configure", dict[i][1], IF r.ok THEN "ok" ELSE "failed"))],
                 dict, i + 1, os, security_level, tpl)

\* the per-tool loop of apply_configurations from position i on; acc holds
\* config_results, the file system and the lines printed
RECURSIVE ConfigLoop(_, _, _, _, _, _)
ConfigLoop(acc, dict, i, os, security_level, tpl) ==
    IF i > Len(dict) THEN acc
    ELSE IF ~dict[i][2] THEN ConfigLoop(acc, dict, i + 1, os, security_level, tpl)
    ELSE LET r == _apply_tool_config(dict[i][1], os, security_level, tpl, acc.fs)
             started == Append(acc.log, Line("configure", dict[i][1], "start"))
         IN  ConfigLoop(
                 [acc EXCEPT !.fs = r.fs,
                             !.success = IF r.ok THEN Append(@, dict[i][1]) ELSE @,
                             !.failed = IF r.ok THEN @ ELSE Append(@, dict[i][1]),
                             !.log = Append(started,
                                 Line("configure", dict[i][1], IF r.ok THEN "ok" ELSE "failed"))],
                 dict, i + 1, os, security_level, tpl)

\* the step as it would be if it were skipped once a tool has failed
ReferenceStepUnlessFailed(acc, flag, ref, tpl) ==
    IF flag /\ acc.failed = <<>> THEN
        LET r == _setup_reference_structure(ref, tpl)
            started == Append(acc.log, Line("reference", "reference_structure", "start"))
        IN  [success |-> IF r.ok THEN Append(acc.success, "reference_structure") ELSE acc.success,
             failed |-> IF r.ok THEN acc.failed ELSE Append(acc.failed, "reference_structure"),
             fs |-> acc.fs, ref |-> r.ref,
             log |-> Append(started,
                 Line("reference", "reference_structure", IF r.ok THEN "ok" ELSE "failed"))]
    ELSE [success |-> acc.success, failed |-> acc.failed, fs |-> acc.fs, ref |-> ref,
          log |-> acc.log]

\* "Set up reference structure if selected", after the per-tool loop
ReferenceStep(acc, flag, ref, tpl) ==
    IF flag THEN
        LET r == _setup_reference_structure(ref, tpl)
            started == Append(acc.log, Line("reference", "reference_structure", "start"))
        IN  [success |-> IF r.ok THEN Append(acc.success, "reference_structure") ELSE acc.success,
             failed |-> IF r.ok THEN acc.failed ELSE Append(acc.failed, "reference_structure"),
             fs |-> acc.fs, ref |-> r.ref,
             log |-> Append(started,
                 Line("reference", "reference_structure", IF r.ok THEN "ok" ELSE "failed"))]
    ELSE [success |-> acc.success, failed |-> acc.failed, fs |-> acc.fs, ref |-> ref,
          log |-> acc.log]

\* apply_configurations: config_results, the file system it leaves and the
\* lines printed
apply_configurations(choices, os, tpl, fs, ref) ==
    ReferenceStep(
        ConfigLoop([success |-> <<>>, failed |-> <<>>, fs |-> fs, log |-> <<>>],
                   choices.selected_tools, 1, os, choices.security_level, tpl),
        choices.reference_structure, ref, tpl)

(***************************************************************************)
(* State.                                                                  *)
(***************************************************************************)
VARIABLES
    \* the workstation
    os_type,            \* platform.system()
    templates,          \* which template sources exist on disk
    fs,                 \* the configuration directories
    reference,          \* the reference directory under the projects directory
    \* a ToolInstaller object and its caller
    config_choices,     \* self.config_choices
    install_results,    \* self.install_results
    calls,              \* calls made on the object so far
    call,               \* the arguments of the last call and what its commands did
    ret,                \* what the last call returned
    log,                \* the lines the last call or run put out
    \* the workstation, as the detector sees it
    present,            \* the tools whose probes find something
    \* a ReadyifierGUI object
    current_tab,        \* self.notebook.select()
    tab_state,          \* the state of each tab of self.notebook
    back_button,        \* the state of self.back_button
    next_button,        \* the command bound to self.next_button
    detection_results,  \* self.detection_results: the tools detected
    config_vars,        \* self.config_vars
    install_vars,       \* self.install_vars
    install_check,      \* the state of each Install checkbox
    security_var,       \* self.security_var
    ai_var,             \* self.ai_var
    ref_var,            \* self.ref_var
    summary_text,       \* the content of self.summary_text
    dialog,             \* the message boxes shown so far
    destroyed,          \* self.root.destroy() was called
    events              \* the clicks handled so far

env_vars == <<os_type, templates, fs, reference>>

installer_vars == <<config_choices, install_results, calls, call, ret>>

selection_vars == <<config_vars, install_vars, install_check>>

settings_vars == <<security_var, ai_var, ref_var>>

notebook_vars == <<current_tab, tab_state, back_button, next_button>>

gui_vars ==
    <<present, notebook_vars, detection_results, selection_vars, settings_vars,
      summary_text, dialog, destroyed, events>>

vars == <<env_vars, installer_vars, log, gui_vars>>

\* ToolInstaller.__init__
NewInstallResults == [success |-> <<>>, failed |-> <<>>, skipped |-> <<>>]

NoReturn == [success |-> <<>>, failed |-> <<>>]

NoCall == [op |-> "none", tools |-> <<>>, outs |-> <<>>]

\* ReadyifierGUI.__init__: self.config_choices
DefaultChoices ==
    [selected_tools |-> <<>>, tools_to_install |-> <<>>, security_level |-> "standard",
     ai_personality |-> "default", reference_structure |-> TRUE]

\* the tabs of self.notebook, in the order they are created
Tabs == 0..5

\* ReadyifierGUI.__init__: the window as it opens
NewGui ==
    /\ current_tab = 0
    /\ tab_state = [i \in Tabs |-> IF i = 0 THEN "normal" ELSE "disabled"]
    /\ back_button = "disabled"
    /\ next_button = "go_next"
    /\ detection_results = {}
    /\ config_vars = <<>>
    /\ install_vars = <<>>
    /\ install_check = [t \in AllTools |-> "normal"]
    /\ security_var = "standard"
    /\ ai_var = "default"
    /\ ref_var = TRUE
    /\ summary_text = <<>>
    /\ dialog = <<>>
    /\ destroyed = FALSE
    /\ events = 0

\* the lists of at most n elements of S
RECURSIVE ListsUpTo(_, _)
ListsUpTo(S, n) ==
    IF n = 0 THEN {<<>>}
    ELSE LET shorter == ListsUpTo(S, n - 1)
         IN  shorter \cup {Append(l, x) : l \in shorter, x \in S}

FullTemplates ==
    [rules |-> TRUE, security |-> {"standard", "enhanced"},
     configs |-> [exists |-> TRUE, files |-> {"settings.json"}, subdir |-> FALSE, dirs_first |-> FALSE],
     readonly |-> FALSE, reference |-> NoReferenceTemplate]

(***************************************************************************)
(* InstallerSpec: install_missing_tools called on one ToolInstaller with   *)
(* any short list of tool identifiers, every external command ending in    *)
(* any of the three ways.                                                  *)
(***************************************************************************)
\* the identifiers handed in: an IDE with a command on two OSes, an IDE with
\* no automated action, a pip-installed assistant, and an unregistered name
InstallInputs == {"vscode", "trae", "cline", "unknown"}

InstallerInit ==
    /\ os_type \in OsTypes
    /\ templates = FullTemplates
    /\ fs = [d \in ConfigDirs(os_type) |-> AbsentDir]
    /\ reference = AbsentReference
    /\ config_choices = DefaultChoices
    /\ install_results = NewInstallResults
    /\ calls = 0
    /\ call = NoCall
    /\ ret = NoReturn
    /\ log = <<>>
    /\ present = {}
    /\ NewGui

InstallMissingTools(tools, outs) ==
    /\ calls < MaxCalls
    /\ LET r == install_missing_tools(install_results, tools, outs, os_type)
       IN  /\ install_results' = r.results
           /\ ret' = r.results
           /\ log' = r.log
    /\ calls' = calls + 1
    /\ call' = [op |-> "install_missing_tools", tools |-> tools, outs |-> outs]
    /\ UNCHANGED <<env_vars, config_choices, gui_vars>>

\* every call considered on each OS: a list and what its commands do
InstallCalls ==
    [os \in OsTypes |->
        UNION {{<<tools, outs>> : outs \in OutcomesFor(tools, os)} :
                  tools \in ListsUpTo(InstallInputs, MaxList)}]

InstallerNext ==
    \E c \in InstallCalls[os_type] : InstallMissingTools(c[1], c[2])

InstallerSpec == InstallerInit /\ [][InstallerNext]_vars

(***************************************************************************)
(* C1.  Install-pass failure isolation.                                    *)
(***************************************************************************)
\* how often x occurs in the sequence q
Count(q, x) == Cardinality({i \in 1..Len(q) : q[i] = x})

\* the entries a call appended to a list of self.install_results
Appended(before, after) == SubSeq(after, Len(before) + 1, Len(after))

\* what one call of install_missing_tools(tools) must have done, whatever
\* the commands did: every tool of the list attempted in order, one result
\* appended per tool, and N-1 successes and 1 failure when exactly one
\* install action failed
IsolatedPass(tools, outs) ==
    LET N == Len(tools)
        failing == {i \in 1..N : ~_install_tool(tools[i], os_type, outs[i])}
        ok == Appended(install_results.success, install_results'.success)
        ko == Appended(install_results.failed, install_results'.failed)
    IN  /\ Len(log') = 2 * N
        /\ \A i \in 1..N : log'[2 * i - 1] = Line("install", tools[i], "start")
        /\ Len(ok) + Len(ko) = N
        /\ \A t \in InstallInputs : Count(ok, t) + Count(ko, t) = Count(tools, t)
        /\ Cardinality(failing) = 1 => Len(ok) = N - 1 /\ Len(ko) = 1
        /\ ret' = install_results'

\* C1: for every list of N tools the install pass attempts every tool of the
\* list and records exactly one result per tool, whatever the outcome of the
\* tools before it (a command that exits non-zero or raises included); with
\* exactly one failing install action it records N-1 successes and 1 failure.
C1_InstallIsolation ==
    [][call'.op = "install_missing_tools" /\ calls' = calls + 1
          => IsolatedPass(call'.tools, call'.outs)]_vars

\* a pass of two tools in which the first install raised and the second
\* succeeded
C1_Witness ==
    /\ call.op = "install_missing_tools"
    /\ call.outs = <<"raise", "ok">>
    /\ Len(log) = 4
    /\ log[2].msg = "failed"
    /\ log[4].msg = "ok"
    /\ Len(ret.success) = 1
    /\ Len(ret.failed) = 1

(***************************************************************************)
(* ConfigSpec: apply_configurations called on a ToolInstaller built with   *)
(* any small config_choices, on a disk where any of the template sources   *)
(* may be missing and the configuration directories may be absent, in use  *)
(* or unwritable.                                                          *)
(***************************************************************************)
\* the keys of selected_tools handed in: an IDE, an assistant and an
\* unregistered name
ConfigInputs == {"vscode", "cline", "unknown"}

\* the dicts of at most n entries over the keys S with boolean values
RECURSIVE DictsUpTo(_, _)
DictsUpTo(S, n) ==
    IF n = 0 THEN {<<>>}
    ELSE LET shorter == DictsUpTo(S, n - 1)
         IN  shorter \cup
             {Append(d, <<k, v>>) : d \in {x \in shorter : Len(x) = n - 1}, k \in S, v \in BOOLEAN}

SelectedToolsInputs == {d \in DictsUpTo(ConfigInputs, MaxList) : IsDict(d)}

ConfigChoicesInputs ==
    {[DefaultChoices EXCEPT !.selected_tools = d, !.security_level = l, !.reference_structure = r] :
        d \in SelectedToolsInputs, l \in SecurityLevels, r \in BOOLEAN}

\* the directories a tool identifier of the inputs may resolve to
InputDirs(os) == ConfigDirs(os) \cup ({_get_tool_config_dir(t, os) : t \in ConfigInputs} \ {<<None>>})

ConfigInit ==
    /\ os_type \in OsTypes
    /\ templates \in TemplateStates
    /\ \E s \in InitDirStates : fs = [d \in InputDirs(os_type) |-> s]
    /\ reference \in {AbsentReference, LockedReference}
    /\ config_choices \in ConfigChoicesInputs
    /\ install_results = NewInstallResults
    /\ calls = 0
    /\ call = NoCall
    /\ ret = NoReturn
    /\ log = <<>>
    /\ present = {}
    /\ NewGui

ApplyConfigurations ==
    /\ calls < MaxCalls
    /\ LET r == apply_configurations(config_choices, os_type, templates, fs, reference)
       IN  /\ fs' = r.fs
           /\ reference' = r.ref
           /\ ret' = [success |-> r.success, failed |-> r.failed]
           /\ log' = r.log
    /\ calls' = calls + 1
    /\ call' = [op |-> "apply_configurations", tools |-> <<>>, outs |-> <<>>]
    /\ UNCHANGED <<os_type, templates, config_choices, install_results, gui_vars>>

ConfigNext == ApplyConfigurations

ConfigSpec == ConfigInit /\ [][ConfigNext]_vars

\* the call just made is apply_configurations
Applied == call'.op = "apply_configurations" /\ calls' = calls + 1

\* the tools with selected=true, in the order of the dict
SelectedTools == TrueKeys(config_choices.selected_tools)

\* the lines of q about operation op with message msg
Lines(q, op, msg) == {i \in 1..Len(q) : q[i].op = op /\ q[i].msg = msg}

(***************************************************************************)
(* C5.  Configure with no resolvable configuration directory.              *)
(***************************************************************************)
\* C5: every selected tool for which the path resolver returns None is
\* recorded as failed, never as successfully configured, whichever layer
\* sources exist, and every selected tool gets its result (the run goes on).
C5_AbsentDirIsFailure ==
    call.op = "apply_configurations" =>
        \A i \in 1..Len(SelectedTools) :
            LET t == SelectedTools[i]
            IN  /\ Count(ret.success, t) + Count(ret.failed, t) = 1
                /\ _get_tool_config_dir(t, os_type) = <<None>> => Count(ret.failed, t) = 1

(***************************************************************************)
(* C7.  The reference-structure step.                                      *)
(***************************************************************************)
\* C7: with the reference-structure flag set the step is executed exactly
\* once, after the per-tool actions, and exactly one result is recorded for
\* it, whatever the per-tool outcomes; with the flag unset it is not executed,
\* nothing is recorded for it and the reference directory is left as it was.
C7_ReferenceOnce ==
    [][Applied =>
          LET started == Lines(log', "reference", "start")
              results == Count(ret'.success, "reference_structure")
                             + Count(ret'.failed, "reference_structure")
          IN  IF config_choices.reference_structure
              THEN /\ started = {Len(log') - 1}
                   /\ results = 1
                   /\ Count(ret'.success, "reference_structure") = 1
                          <=> log'[Len(log')] = Line("reference", "reference_structure", "ok")
              ELSE /\ started = {}
                   /\ results = 0
                   /\ reference' = reference]_vars

\* the step ran and succeeded after a tool's configuration had failed
C7_Witness ==
    /\ call.op = "apply_configurations"
    /\ config_choices.reference_structure
    /\ Len(ret.failed) >= 1
    /\ ret.failed[1] # "reference_structure"
    /\ Count(ret.success, "reference_structure") = 1
    /\ reference.subdirs = ReferenceSubdirs

(***************************************************************************)
(* C8, C9, C10.  The layers of one configure action.                       *)
(***************************************************************************)
\* the content a file of the directory must have after layers written in the
\* order rules, security, tool-specific: that of the last layer writing it
LastWriter(f, rules, security, security_level) ==
    IF templates.configs.exists /\ f \in templates.configs.files THEN "tool"
    ELSE IF f = "security_config.json" /\ security THEN security_level
    ELSE IF f = ".cursorrules" /\ rules THEN "rules"
    ELSE Missing

\* directory d holds what the given layers write, last writer winning
Layered(d, rules, security) ==
    \A f \in {".cursorrules", "security_config.json"} \cup
             (IF templates.configs.exists THEN templates.configs.files ELSE {}) :
        LET w == LastWriter(f, rules, security, config_choices.security_level)
        IN  w # Missing => fs'[d].files[f] = w

\* C8: the layers are written in the order rules, security, tool-specific,
\* the last layer writing a file name deciding its content; a tool
\* configured with tier "enhanced" whose three sources exist receives the
\* rules layer, the enhanced profile and its own overrides, and one success
\* is recorded for it.
C8_LayerOrder ==
    [][Applied =>
          \A i \in 1..Len(SelectedTools) :
              LET t == SelectedTools[i]
                  d == _get_tool_config_dir(t, os_type)
              IN  (/\ t \in AllTools
                   /\ d # <<None>>
                   /\ fs[d].writable
                   /\ config_choices.security_level = "enhanced"
                   /\ templates.rules
                   /\ "enhanced" \in templates.security
                   /\ templates.configs.exists)
                  => /\ Count(ret'.success, t) = 1
                     /\ Layered(d, TRUE, TRUE)]_vars

\* C9: a layer whose source does not exist is skipped and is no error: with a
\* configuration directory that exists and can be written, the layers whose
\* sources exist are applied and the tool is reported as configured.
C9_MissingLayerSkipped ==
    [][Applied =>
          \A i \in 1..Len(SelectedTools) :
              LET t == SelectedTools[i]
                  d == _get_tool_config_dir(t, os_type)
              IN  (d # <<None>> /\ fs[d].exists /\ fs[d].writable)
                  => /\ Count(ret'.success, t) = 1
                     /\ Layered(d, templates.rules /\ t \in IdeTools,
                                config_choices.security_level \in templates.security)]_vars

\* C10: every configured tool receives the same three layers whatever its
\* family: the rules layer too for an assistant, and the profile of the
\* security tier selected for the run.
C10_SameStackForAll ==
    [][Applied =>
          \A i \in 1..Len(SelectedTools) :
              LET t == SelectedTools[i]
                  d == _get_tool_config_dir(t, os_type)
              IN  (t \in AllTools /\ Count(ret'.success, t) = 1)
                  => Layered(d, templates.rules,
                             config_choices.security_level \in templates.security)]_vars

(***************************************************************************)
(* gui_manager.py: the wizard.  One run of start_installation, with the    *)
(* lines it logs and the summary it prepares.                              *)
(***************************************************************************)
\* the value of key k in a dict that has it
Get(dict, k) == dict[CHOOSE i \in 1..Len(dict) : dict[i][1] = k][2]

\* dict[k] = v for a key the dict has
Set(dict, k, v) == [i \in 1..Len(dict) |-> IF dict[i][1] = k THEN <<k, v>> ELSE dict[i]]

\* the loop over tools_to_install, from position i on; acc holds the lines
\* logged and the tools whose install action returned True
RECURSIVE GuiInstallLoop(_, _, _, _, _)
GuiInstallLoop(acc, tools, outs, os, i) ==
    IF i > Len(tools) THEN acc
    ELSE LET started == Append(acc.log, Line("install", tools[i], "start"))
             success == _install_tool(tools[i], os, outs[i])
         IN  GuiInstallLoop(
                 [log |-> Append(started,
                             Line("install", tools[i], IF success THEN "ok" ELSE "failed")),
                  installed |-> IF success THEN acc.installed \cup {tools[i]} ELSE acc.installed],
                 tools, outs, os, i + 1)

\* "Install missing tools"
InstallPass(acc, choices, outs, os) ==
    LET tools_to_install == TrueKeys(choices.tools_to_install)
    IN  IF tools_to_install # <<>>
        THEN LET r == GuiInstallLoop(
                          [log |-> Append(acc.log, Line("install", "", "begin")), installed |-> {}],
                          tools_to_install, outs, os, 1)
             IN  [acc EXCEPT !.log = r.log, !.installed = r.installed]
        ELSE [acc EXCEPT !.log = Append(@, Line("install", "", "none"))]

\* the loop over selected_tools, from position i on
RECURSIVE GuiConfigLoop(_, _, _, _, _, _)
GuiConfigLoop(acc, tools, i, os, security_level, tpl) ==
    IF i > Len(tools) THEN acc
    ELSE LET r == _apply_tool_config(tools[i], os, security_level, tpl, acc.fs)
             started == Append(acc.log, Line("configure", tools[i], "start"))
         IN  GuiConfigLoop(
                 [acc EXCEPT !.fs = r.fs,
                             !.log = Append(started,
                                 Line("configure", tools[i], IF r.ok THEN "ok" ELSE "failed"))],
                 tools, i + 1, os, security_level, tpl)

\* "Apply configurations"
ConfigurePass(acc, choices, os, tpl) ==
    LET selected_tools == TrueKeys(choices.selected_tools)
        begun == [acc EXCEPT !.log = Append(@, Line("configure", "", "begin"))]
    IN  IF selected_tools # <<>>
        THEN GuiConfigLoop(begun, selected_tools, 1, os, choices.security_level, tpl)
        ELSE [begun EXCEPT !.log = Append(@, Line("configure", "", "none"))]

\* "Set up reference structure if selected"
ReferencePass(acc, choices, tpl) ==
    IF choices.reference_structure
    THEN LET r == _setup_reference_structure(acc.ref, tpl)
             started == Append(acc.log, Line("reference", "reference_structure", "start"))
         IN  [acc EXCEPT !.ref = r.ref,
                         !.log = Append(started,
                             Line("reference", "reference_structure",
                                  IF r.ok THEN "ok" ELSE "failed"))]
    ELSE acc

\* the run as it would be if the tools were configured before the missing
\* ones are installed
start_installation_ConfigureFirst(choices, os, tpl, dirs, ref, outs) ==
    LET started == [log |-> <<Line("run", "", "start")>>, installed |-> {},
                    fs |-> dirs, ref |-> ref]
        done == ReferencePass(
                    InstallPass(ConfigurePass(started, choices, os, tpl), choices, outs, os),
                    choices, tpl)
    IN  [done EXCEPT !.log = Append(@, Line("run", "", "completed"))]

\* start_installation up to "Prepare summary": the lines of self.log_text,
\* the tools installed, and the directories as the run leaves them
start_installation(choices, os, tpl, dirs, ref, outs) ==
    LET started == [log |-> <<Line("run", "", "start")>>, installed |-> {},
                    fs |-> dirs, ref |-> ref]
        done == ReferencePass(
                    ConfigurePass(InstallPass(started, choices, outs, os), choices, os, tpl),
                    choices, tpl)
    IN  [done EXCEPT !.log = Append(@, Line("run", "", "completed"))]

\* the lines that tick off the tools of one section of the summary
RECURSIVE Ticks(_, _)
Ticks(section, tools) ==
    IF tools = <<>> THEN <<>>
    ELSE <<Line(section, Head(tools), "ok")>> \o Ticks(section, Tail(tools))

\* prepare_summary: the lines of self.summary_text between header and
\* "Next Steps"
prepare_summary(choices) ==
    LET installed_tools == TrueKeys(choices.tools_to_install)
        configured_tools == TrueKeys(choices.selected_tools)
    IN  (IF installed_tools # <<>> THEN Ticks("install", installed_tools)
         ELSE <<Line("install", "", "none")>>)
        \o (IF configured_tools # <<>> THEN Ticks("configure", configured_tools)
            ELSE <<Line("configure", "", "none")>>)
        \o <<Line("security_level", choices.security_level, ""),
             Line("ai_personality", choices.ai_personality, ""),
             Line("reference", "reference_structure",
                  IF choices.reference_structure THEN "created" ELSE "not created")>>

(***************************************************************************)
(* Spec: the wizard driven by its operator.  Every step is one event       *)
(* handler run to its end: the Next and Back buttons, a click on a tab     *)
(* that is enabled, the checkboxes and buttons of the selection tab, the   *)
(* controls of the configuration tab.                                      *)
(***************************************************************************)
\* the tools whose checkboxes the operator clicks one by one (the Select All
\* buttons act on every tool)
FocusTools == {"vscode", "cline"}

\* the command of a tool outside FocusTools ends this way
OtherOutcome == "nonzero"

\* what the commands of one run may do
RunOutcomes(tools, os) ==
    {outs \in OutcomesFor(tools, os) :
        \A i \in 1..Len(tools) :
            tools[i] \notin FocusTools /\ outs[i] # "none" => outs[i] = OtherOutcome}

\* EnvironmentDetector.detect_all: the keys of "ides" and "ai_tools"
detect_all(found) == found \cap AllTools

GuiInit ==
    /\ os_type \in OsTypes
    /\ templates = FullTemplates
    /\ fs = [d \in ConfigDirs(os_type) |-> AbsentDir]
    /\ reference \in {AbsentReference, LockedReference}
    /\ config_choices = DefaultChoices
    /\ install_results = NewInstallResults
    /\ calls = 0
    /\ call = NoCall
    /\ ret = NoReturn
    /\ log = <<>>
    /\ present \in SUBSET FocusTools
    /\ NewGui

\* one more click is handled, the window being open
Click ==
    /\ ~destroyed
    /\ events < MaxEvents
    /\ events' = events + 1

\* start_detection
start_detection ==
    /\ tab_state' = [tab_state EXCEPT ![1] = "normal"]
    /\ current_tab' = 1
    /\ back_button' = "normal"
    /\ detection_results' = detect_all(present)
    /\ UNCHANGED <<next_button, selection_vars, config_choices, log, summary_text,
                   present, fs, reference>>

\* populate_selection_tab, add_tool_item for every tool
populate_selection_tab ==
    /\ config_vars' = [i \in 1..Len(all_tools) |->
                          <<all_tools[i], all_tools[i] \in detection_results>>]
    /\ install_vars' = [i \in 1..Len(all_tools) |-> <<all_tools[i], FALSE>>]
    /\ install_check' = [t \in AllTools |->
                            IF t \in detection_results THEN "disabled" ELSE "normal"]

\* update_config_from_selection
update_config_from_selection ==
    config_choices' = [config_choices EXCEPT !.selected_tools = config_vars,
                                             !.tools_to_install = install_vars]

\* update_config_from_settings
update_config_from_settings ==
    [config_choices EXCEPT !.security_level = security_var,
                           !.ai_personality = ai_var,
                           !.reference_structure = ref_var]

\* go_next on the configuration tab: the settings are committed and the run
\* is made, its commands ending as outs says
RunInstallation(outs) ==
    LET choices == update_config_from_settings
        r == start_installation(choices, os_type, templates, fs, reference, outs)
    IN  /\ config_choices' = choices
        /\ tab_state' = [tab_state EXCEPT ![4] = "normal"]
        /\ current_tab' = 4
        /\ log' = r.log
        /\ fs' = r.fs
        /\ reference' = r.ref
        /\ present' = present \cup r.installed
        /\ summary_text' = prepare_summary(choices)
        /\ UNCHANGED <<back_button, next_button, detection_results, selection_vars>>

\* go_next
go_next ==
    /\ Click
    /\ next_button = "go_next"
    /\ \/ /\ current_tab = 0
          /\ start_detection
       \/ /\ current_tab = 1
          /\ populate_selection_tab
          /\ tab_state' = [tab_state EXCEPT ![2] = "normal"]
          /\ current_tab' = 2
          /\ back_button' = "normal"
          /\ UNCHANGED <<next_button, detection_results, config_choices, log,
                         summary_text, present, fs, reference>>
       \/ /\ current_tab = 2
          /\ update_config_from_selection
          /\ tab_state' = [tab_state EXCEPT ![3] = "normal"]
          /\ current_tab' = 3
          /\ UNCHANGED <<back_button, next_button, detection_results, selection_vars,
                         log, summary_text, present, fs, reference>>
       \/ /\ current_tab = 3
          /\ \E outs \in RunOutcomes(TrueKeys(config_choices.tools_to_install), os_type) :
                 RunInstallation(outs)
       \/ /\ current_tab = 4
          /\ tab_state' = [tab_state EXCEPT ![5] = "normal"]
          /\ current_tab' = 5
          /\ next_button' = "finish"
          /\ UNCHANGED <<back_button, detection_results, selection_vars, config_choices,
                         log, summary_text, present, fs, reference>>
       \/ /\ current_tab = 5
          /\ UNCHANGED <<notebook_vars, detection_results, selection_vars, config_choices,
                         log, summary_text, present, fs, reference>>
    /\ UNCHANGED <<os_type, templates, install_results, calls, call, ret, settings_vars,
                   dialog, destroyed>>

\* go_back
go_back ==
    /\ Click
    /\ back_button = "normal"
    /\ IF current_tab > 0
       THEN /\ current_tab' = current_tab - 1
            /\ back_button' = IF current_tab - 1 = 0 THEN "disabled" ELSE back_button
            /\ next_button' = IF current_tab = 5 THEN "go_next" ELSE next_button
       ELSE UNCHANGED <<current_tab, back_button, next_button>>
    /\ UNCHANGED <<env_vars, installer_vars, log, present, tab_state, detection_results,
                   selection_vars, settings_vars, summary_text, dialog, destroyed>>

\* a click on a tab of the notebook that is enabled
SelectTab(i) ==
    /\ Click
    /\ tab_state[i] = "normal"
    /\ i # current_tab
    /\ current_tab' = i
    /\ UNCHANGED <<env_vars, installer_vars, log, present, tab_state, back_button,
                   next_button, detection_results, selection_vars, settings_vars,
                   summary_text, dialog, destroyed>>

\* what is left alone by a control of the selection tab
SelectionOnly ==
    UNCHANGED <<env_vars, installer_vars, log, present, notebook_vars, detection_results,
                install_check, settings_vars, summary_text, dialog, destroyed>>

\* a click on the Configure checkbox of a tool
ToggleConfigure(t) ==
    /\ Click
    /\ current_tab = 2
    /\ config_vars' = Set(config_vars, t, ~Get(config_vars, t))
    /\ UNCHANGED install_vars
    /\ SelectionOnly

\* a click on the Install checkbox of a tool; a disabled checkbox takes none
ToggleInstall(t) ==
    /\ Click
    /\ current_tab = 2
    /\ install_check[t] = "normal"
    /\ install_vars' = Set(install_vars, t, ~Get(install_vars, t))
    /\ UNCHANGED config_vars
    /\ SelectionOnly

\* select_all_tools(value, selection_type)
select_all_tools(value, selection_type) ==
    /\ Click
    /\ current_tab = 2
    /\ config_vars' =
           IF selection_type \in {"config", "both"}
           THEN [i \in 1..Len(config_vars) |-> <<config_vars[i][1], value>>]
           ELSE config_vars
    /\ install_vars' =
           IF selection_type \in {"install", "both"}
           THEN [i \in 1..Len(install_vars) |->
                    LET key == install_vars[i][1]
                        is_installed == key \in detection_results
                    IN  IF ~is_installed THEN <<key, value>> ELSE install_vars[i]]
           ELSE install_vars
    /\ SelectionOnly

\* the three buttons of the selection tab
SelectAllConfig == select_all_tools(TRUE, "config")

SelectAllInstall == select_all_tools(TRUE, "install")

ClearAll == select_all_tools(FALSE, "both")

\* what is left alone by a control of the configuration tab
SettingsOnly ==
    UNCHANGED <<env_vars, installer_vars, log, present, notebook_vars, detection_results,
                selection_vars, summary_text, destroyed>>

\* a click on one of the two security radio buttons
SelectSecurity(level) ==
    /\ Click
    /\ current_tab = 3
    /\ security_var' = level
    /\ UNCHANGED <<ai_var, ref_var, dialog>>
    /\ SettingsOnly

\* a click on the "Default" personality radio button
SelectDefaultPersonality ==
    /\ Click
    /\ current_tab = 3
    /\ ai_var' = "default"
    /\ UNCHANGED <<security_var, ref_var, dialog>>
    /\ SettingsOnly

\* the click on "Custom" as it would be if the dialog left the variable
\* as the radio button set it
show_custom_personality_dialog_kept ==
    /\ Click
    /\ current_tab = 3
    /\ dialog' = IF Len(dialog) < MaxDialogs THEN Append(dialog, "Custom Personality")
                 ELSE dialog
    /\ ai_var' = "custom"
    /\ UNCHANGED <<security_var, ref_var>>
    /\ SettingsOnly

\* a click on the "Custom" radio button: the variable takes "custom", then
\* show_custom_personality_dialog runs
show_custom_personality_dialog ==
    /\ Click
    /\ current_tab = 3
    /\ dialog' = IF Len(dialog) < MaxDialogs THEN Append(dialog, "Custom Personality")
                 ELSE dialog
    /\ ai_var' = "default"
    /\ UNCHANGED <<security_var, ref_var>>
    /\ SettingsOnly

\* a click on the reference structure checkbox
ToggleReference ==
    /\ Click
    /\ current_tab = 3
    /\ ref_var' = ~ref_var
    /\ UNCHANGED <<security_var, ai_var, dialog>>
    /\ SettingsOnly

\* finish
finish ==
    /\ Click
    /\ next_button = "finish"
    /\ dialog' = Append(dialog, "Setup Complete")
    /\ destroyed' = TRUE
    /\ UNCHANGED <<env_vars, installer_vars, log, present, notebook_vars, detection_results,
                   selection_vars, settings_vars, summary_text>>

Init == GuiInit

Next ==
    \/ go_next
    \/ go_back
    \/ \E i \in Tabs : SelectTab(i)
    \/ \E t \in FocusTools : ToggleConfigure(t)
    \/ \E t \in FocusTools : ToggleInstall(t)
    \/ SelectAllConfig
    \/ SelectAllInstall
    \/ ClearAll
    \/ \E level \in SecurityLevels : SelectSecurity(level)
    \/ SelectDefaultPersonality
    \/ show_custom_personality_dialog
    \/ ToggleReference
    \/ finish

Spec == Init /\ [][Next]_vars

(***************************************************************************)
(* Claims about the wizard.                                                *)
(***************************************************************************)
\* the step is a click on Next that makes the run
RunStarts == current_tab = 3 /\ current_tab' = 4 /\ go_next

\* the places of the lines of q that begin or end the action of pass op on
\* a tool
Starts(q, op) == {i \in 1..Len(q) : q[i].op = op /\ q[i].msg = "start"}

Ends(q, op) == {i \in 1..Len(q) : q[i].op = op /\ q[i].msg \in {"ok", "failed"}}

\* C2: the summary of a run has exactly one line for every item the run
\* attempted (each install, each configure, the reference step), that line
\* tells the outcome the item actually had, and no line presents an item as
\* done that failed or was not attempted.
C2_SummaryTellsOutcomes ==
    summary_text # <<>> =>
        /\ \A op \in {"install", "configure"} :
               /\ \A i \in Ends(log, op) :
                      Cardinality({j \in 1..Len(summary_text) :
                          /\ summary_text[j].op = op
                          /\ summary_text[j].tool = log[i].tool}) = 1
               /\ \A j \in 1..Len(summary_text) :
                      summary_text[j].op = op /\ summary_text[j].msg = "ok" =>
                          Line(op, summary_text[j].tool, "ok") \in {log[i] : i \in 1..Len(log)}
        /\ \A j \in 1..Len(summary_text) :
               summary_text[j].op = "reference" =>
                   (summary_text[j].msg = "created"
                       <=> Lines(log, "reference", "ok") # {})

\* the step is an attempt to mark install=true for tool t, by its Install
\* checkbox or by "Select All for Installation"
MarksInstall(t) ==
    \/ SelectAllInstall
    \/ t \in FocusTools /\ ToggleInstall(t) /\ Get(install_vars', t)

\* C3: an attempt to mark install=true for a detected tool, by the tool's
\* own control or by "Select All for Installation", leaves the tool's
\* install flag as it was and reports a validation failure.
C3_InstallOfDetectedRejected ==
    [][\A t \in detection_results :
           MarksInstall(t) =>
               /\ Get(install_vars', t) = Get(install_vars, t)
               /\ dialog' # dialog]_vars

\* C4: whenever a run starts, every tool whose install flag is true in the
\* config_choices the run consumes is absent from the detection results,
\* and the selection it consumes is the one the checkboxes show.
C4_RunConsumesLatestChoices ==
    [][RunStarts =>
           /\ \A t \in AllTools :
                  Get(config_choices'.tools_to_install, t) => t \notin detection_results
           /\ config_choices'.selected_tools = config_vars
           /\ config_choices'.tools_to_install = install_vars]_vars

\* the lines of the three passes come in the order install, configure,
\* reference, every selected install action being finished before the first
\* configure action starts and every selected configure action before the
\* reference step starts
Sequential(q, choices) ==
    /\ Cardinality(Ends(q, "install")) = Len(TrueKeys(choices.tools_to_install))
    /\ Cardinality(Ends(q, "configure")) = Len(TrueKeys(choices.selected_tools))
    /\ \A i \in Ends(q, "install") : \A j \in Starts(q, "configure") : i < j
    /\ \A i \in Ends(q, "install") : \A j \in Starts(q, "reference") : i < j
    /\ \A i \in Ends(q, "configure") : \A j \in Starts(q, "reference") : i < j

\* C6: in every run no configure action starts before every selected
\* install action has finished, and the reference step starts only after
\* every selected configure action has finished.
C6_PassesSequential ==
    [][RunStarts => Sequential(log', config_choices')]_vars

\* a run that installed a tool, configured a tool and set up the reference
\* structure
C6_Witness ==
    /\ Ends(log, "install") # {}
    /\ Ends(log, "configure") # {}
    /\ Ends(log, "reference") # {}
    /\ current_tab = 4

(***************************************************************************)
(* LayerSpec: _apply_tool_config and _get_tool_config_dir called directly  *)
(* on one ToolInstaller, for any tool identifier, up to MaxApplies times,  *)
(* on a disk where any of the layer sources may be missing or read-only   *)
(* and the configuration directories are absent, in use or unwritable.     *)
(***************************************************************************)
\* the identifiers handed in: the registry and an unregistered name
LayerTools == AllTools \cup {"unknown"}

LayerInit ==
    /\ os_type \in OsTypes
    /\ templates \in TemplateStates
    /\ \E s \in InitDirStates : fs = [d \in ConfigDirs(os_type) |-> s]
    /\ reference = AbsentReference
    /\ \E l \in SecurityLevels : config_choices = [DefaultChoices EXCEPT !.security_level = l]
    /\ install_results = NewInstallResults
    /\ calls = 0
    /\ call = NoCall
    /\ ret = NoReturn
    /\ log = <<>>
    /\ present = {}
    /\ NewGui

\* installer._apply_tool_config(tool)
ApplyToolConfig(tool) ==
    /\ calls < MaxApplies
    /\ LET r == _apply_tool_config(tool, os_type, config_choices.security_level, templates, fs)
       IN  /\ fs' = r.fs
           /\ ret' = r.ok
           /\ log' = Append(log, Line("configure", tool, IF r.ok THEN "ok" ELSE "failed"))
    /\ calls' = calls + 1
    /\ call' = [op |-> "_apply_tool_config", tools |-> <<tool>>, outs |-> <<>>]
    /\ UNCHANGED <<os_type, templates, reference, config_choices, install_results, gui_vars>>

\* installer._get_tool_config_dir(tool)
GetToolConfigDir(tool) ==
    /\ calls < MaxApplies
    /\ ret' = _get_tool_config_dir(tool, os_type)
    /\ calls' = calls + 1
    /\ call' = [op |-> "_get_tool_config_dir", tools |-> <<tool>>, outs |-> <<>>]
    /\ UNCHANGED <<env_vars, config_choices, install_results, log, gui_vars>>

LayerNext ==
    \/ \E tool \in LayerTools : ApplyToolConfig(tool)
    \/ \E tool \in LayerTools : GetToolConfigDir(tool)

LayerSpec == LayerInit /\ [][LayerNext]_vars

\* the step is a call of _apply_tool_config
Configures == call'.op = "_apply_tool_config" /\ calls' = calls + 1

\* C11: running the configure action on a tool twice in a row, the layer
\* sources unchanged, leaves every configuration directory after the second
\* call as it was after the first, and the second call returns what the
\* first returned.
C11_LayersIdempotent ==
    [][Configures /\ call.op = "_apply_tool_config" /\ call'.tools = call.tools
          => fs' = fs /\ ret' = ret]_vars

\* the layers whose source exists are all in directory dir: each file a layer
\* writes holds what that layer or a later one wrote
LayersComplete(dir, tpl, security_level) ==
    /\ dir.exists
    /\ tpl.rules =>
           dir.files[".cursorrules"] = LastWriter(".cursorrules", TRUE,
               security_level \in tpl.security, security_level)
    /\ security_level \in tpl.security =>
           dir.files["security_config.json"] = LastWriter("security_config.json", tpl.rules,
               TRUE, security_level)
    /\ tpl.configs.exists =>
           /\ \A f \in tpl.configs.files : dir.files[f] = "tool"
           /\ tpl.configs.subdir => dir.subdir = "tool"

\* some layer has a source on this disk
SomeSource(tpl, security_level) ==
    tpl.rules \/ security_level \in tpl.security \/ tpl.configs.exists

\* C12: the configure action of a tool returns False if the configuration
\* directory cannot be created, and returns True only if every layer whose
\* source exists is completely in the configuration directory.
C12_NoPartialSuccess ==
    [][Configures =>
           LET tool == call'.tools[1]
               d == _get_tool_config_dir(tool, os_type)
               level == config_choices.security_level
           IN  /\ d # <<None>> /\ ~fs[d].exists /\ ~fs[d].writable => ~ret'
               /\ ret' /\ SomeSource(templates, level) =>
                      d # <<None>> /\ LayersComplete(fs'[d], templates, level)]_vars

\* the (tool, OS) pairs that have a configuration directory
KnownPair(tool, os) ==
    \/ tool \in {"trae", "void", "cline", "roo", "aider"}
    \/ tool \in {"vscode", "vscode_insiders"} /\ os \in {"Darwin", "Linux", "Windows"}

\* C13: for every tool identifier and every OS, resolving the configuration
\* directory returns a directory under the home directory for the known
\* pairs and None for an unknown tool and for vscode / vscode_insiders on an
\* unrecognised OS; it never ends any other way.
C13_PathResolutionTotal ==
    call.op = "_get_tool_config_dir" =>
        IF KnownPair(call.tools[1], os_type)
        THEN ret # <<None>> /\ Len(ret) >= 3 /\ ret[1] = "~"
        ELSE ret = <<None>>

\* vscode_insiders resolved on an unrecognised OS, after aider was resolved
\* there
C13_Witness ==
    /\ call.op = "_get_tool_config_dir"
    /\ call.tools = <<"vscode_insiders">>
    /\ os_type = "Other"
    /\ ret = <<None>>
    /\ calls = 2

(***************************************************************************)
(* CommandSpec: one call of install_missing_tools followed tool by tool.   *)
(* _run_command hands the command to subprocess.run without timeout=, so  *)
(* besides ending in one of the three ways a command may never return; the *)
(* process then stays inside subprocess.run.  The process itself is always *)
(* scheduled: a step that can be taken is taken (weak fairness).           *)
(***************************************************************************)
\* what a command started by _run_command can do
CommandFates == CmdOutcomes \cup {"hang"}

FatesFor(tools, os) ==
    {outs \in [1..Len(tools) -> CommandFates \cup {"none"}] :
        \A i \in 1..Len(tools) : outs[i] = "none" <=> ~RunsCommand(tools[i], os)}

\* the call is made: its list, and what each of its commands is going to do
CommandInit ==
    /\ os_type \in OsTypes
    /\ templates = FullTemplates
    /\ fs = [d \in ConfigDirs(os_type) |-> AbsentDir]
    /\ reference = AbsentReference
    /\ config_choices = DefaultChoices
    /\ install_results = NewInstallResults
    /\ calls = 0
    /\ \E tools \in ListsUpTo(InstallInputs, MaxList) :
           \E outs \in FatesFor(tools, os_type) :
               call = [op |-> "install_missing_tools", tools |-> tools, outs |-> outs]
    /\ ret = NoReturn
    /\ log = <<>>
    /\ present = {}
    /\ NewGui

\* the tools of the list the loop is through with
Attempted == Len(install_results.success) + Len(install_results.failed)

\* one iteration of the loop of install_missing_tools; it is finished only
\* when subprocess.run has returned or raised
InstallOne ==
    /\ calls = 0
    /\ Attempted < Len(call.tools)
    /\ call.outs[Attempted + 1] # "hang"
    /\ LET r == InstallLoop([results |-> install_results, log |-> log],
                            <<call.tools[Attempted + 1]>>, <<call.outs[Attempted + 1]>>,
                            os_type, 1)
       IN  /\ install_results' = r.results
           /\ log' = r.log
    /\ UNCHANGED <<env_vars, config_choices, calls, call, ret, gui_vars>>

\* return self.install_results
InstallReturns ==
    /\ calls = 0
    /\ Attempted = Len(call.tools)
    /\ ret' = install_results
    /\ calls' = calls + 1
    /\ UNCHANGED <<env_vars, config_choices, install_results, call, log, gui_vars>>

CommandNext == InstallOne \/ InstallReturns

CommandSpec == CommandInit /\ [][CommandNext]_vars /\ WF_vars(CommandNext)

\* C14: every external command runs under a bounded timeout, a timeout being
\* recorded as the failure of its item, so that the install pass eventually
\* returns whatever its commands do, a command that never returns on its own
\* included.
C14_RunCompletes == <>(calls = 1 /\ ret = install_results /\ Attempted = Len(call.tools))

(***************************************************************************)
(* C15.  A run without the template root.                                  *)
(***************************************************************************)
\* none of the sources under the repository's template root is on disk: the
\* state _apply_tool_config finds when the root itself is not there
BaseAssetsMissing(tpl) == ~tpl.rules /\ tpl.security = {} /\ ~tpl.configs.exists

\* C15: when the template root cannot be located the run ends before any
\* configure or reference-structure action is attempted (nothing is put out,
\* recorded or written); in every other case the run attempts every selected
\* tool and, with the flag set, the reference structure.
C15_MissingAssetsAbort ==
    [][Applied =>
          IF BaseAssetsMissing(templates)
          THEN /\ log' = <<>>
               /\ ret' = NoReturn
               /\ fs' = fs
               /\ reference' = reference
          ELSE /\ Cardinality(Lines(log', "configure", "start")) = Len(SelectedTools)
               /\ config_choices.reference_structure
                      => Lines(log', "reference", "start") # {}]_vars

(***************************************************************************)
(* detector.py: EnvironmentDetector.  "on_disk" is the set of IDEs one of   *)
(* whose candidate paths exists, "lookup" what `which <name>` / `where      *)
(* <name>` does for each assistant, "probe" what the --version command of   *)
(* a tool does.                                                             *)
(***************************************************************************)
\* the first line of the output of a --version command that exits 0
VersionLine == "version line"

\* _find_vscode_installations, _find_vscode_insiders_installations,
\* _find_trae_installations, _find_void_installations: the candidate paths
\* of the OS that exist; no candidates on an unrecognised OS
_find_installations(tool, os, on_disk) ==
    IF os \in {"Darwin", "Linux", "Windows"} /\ tool \in on_disk THEN <<"path">> ELSE <<>>

\* _find_executable: the path printed by which / where when it exits 0, None
\* when it exits non-zero or cannot be run
_find_executable(outcome) == IF outcome = "ok" THEN "path" ELSE None

\* _get_vscode_version: the first line of the output when the command was run
\* and exited 0 ("none": a .app bundle without bin/code, no command is run)
_get_vscode_version(outcome) == IF outcome = "ok" THEN VersionLine ELSE None

\* _get_cli_version
_get_cli_version(outcome) == IF outcome = "ok" THEN VersionLine ELSE None

\* _get_generic_version
_get_generic_version == "Unknown"

\* the entry of an IDE in the "ides" dict
IdeEntry(tool, probe) ==
    [installed |-> TRUE,
     version |-> IF tool \in {"vscode", "vscode_insiders"} THEN _get_vscode_version(probe[tool])
                 ELSE _get_generic_version]

\* detect_ides from the i-th IDE of all_tools on
RECURSIVE IdesFrom(_, _, _, _, _)
IdesFrom(ides, i, os, on_disk, probe) ==
    IF i > 4 THEN ides
    ELSE IF _find_installations(all_tools[i], os, on_disk) # <<>>
         THEN IdesFrom(Append(ides, <<all_tools[i], IdeEntry(all_tools[i], probe)>>),
                       i + 1, os, on_disk, probe)
         ELSE IdesFrom(ides, i + 1, os, on_disk, probe)

detect_ides(os, on_disk, probe) == IdesFrom(<<>>, 1, os, on_disk, probe)

RECURSIVE detect_ai_tools_from(_, _, _, _)
\* detect_ai_tools as it would be if a tool whose version probe fails were
\* left out of the result
detect_ai_tools_versioned(lookup, probe) ==
    LET all == detect_ai_tools_from(<<>>, 5, lookup, probe)
    IN  SelectSeq(all, LAMBDA e : e[2].version # None)

\* detect_ai_tools from the i-th entry of all_tools on (cline, roo, aider)
detect_ai_tools_from(ai_tools, i, lookup, probe) ==
    IF i > 7 THEN ai_tools
    ELSE IF _find_executable(lookup[all_tools[i]]) # None
         THEN detect_ai_tools_from(
                  Append(ai_tools, <<all_tools[i],
                      [installed |-> TRUE, version |-> _get_cli_version(probe[all_tools[i]])]>>),
                  i + 1, lookup, probe)
         ELSE detect_ai_tools_from(ai_tools, i + 1, lookup, probe)

detect_ai_tools(lookup, probe) == detect_ai_tools_from(<<>>, 5, lookup, probe)

(***************************************************************************)
(* DetectorSpec: detect_all called on one EnvironmentDetector, on any OS,  *)
(* with any IDEs on disk, any result of the PATH lookups and any outcome   *)
(* of the version probes that are run; what the lookups and probes of the  *)
(* machine do is fixed from the start and kept in call.outs.               *)
(***************************************************************************)
\* the tools whose version is asked with a command
ProbedTools == {"vscode", "vscode_insiders"} \cup AiTools

Lookups == [AiTools -> CmdOutcomes]

\* what the version probes can do: one of the three outcomes of the command,
\* or "none" where no command is run (the tool was not found, or the .app
\* bundle of VS Code has no bin/code)
ProbesFor(os, on_disk, lookup) ==
    {p \in [ProbedTools -> CmdOutcomes \cup {"none"}] :
        /\ \A t \in AiTools : p[t] = "none" <=> _find_executable(lookup[t]) = None
        /\ \A t \in ProbedTools \ AiTools :
               _find_installations(t, os, on_disk) = <<>> => p[t] = "none"}

DetectorInit ==
    /\ os_type \in OsTypes
    /\ templates = FullTemplates
    /\ fs = [d \in ConfigDirs(os_type) |-> AbsentDir]
    /\ reference = AbsentReference
    /\ config_choices = DefaultChoices
    /\ install_results = NewInstallResults
    /\ calls = 0
    /\ present \in SUBSET IdeTools
    /\ \E lookup \in Lookups :
           \E probe \in ProbesFor(os_type, present, lookup) :
               call = [op |-> "none", tools |-> <<>>,
                       outs |-> [lookup |-> lookup, probe |-> probe]]
    /\ ret = NoReturn
    /\ log = <<>>
    /\ NewGui

\* detector.detect_all(): the "ides" and "ai_tools" of what it returns, on a
\* machine whose lookups and probes do what call.outs says
DetectAll ==
    /\ calls < MaxCalls
    /\ ret' = [ides |-> detect_ides(os_type, present, call.outs.probe),
               ai_tools |-> detect_ai_tools(call.outs.lookup, call.outs.probe)]
    /\ call' = [call EXCEPT !.op = "detect_all"]
    /\ calls' = calls + 1
    /\ UNCHANGED <<env_vars, config_choices, install_results, log, gui_vars>>

DetectorNext == DetectAll

DetectorSpec == DetectorInit /\ [][DetectorNext]_vars

\* the detection result as one dict
Detected == ret.ides \o ret.ai_tools

\* a path of the tool was found by the call made
PathFound(tool) ==
    IF tool \in IdeTools THEN tool \in present /\ os_type \in {"Darwin", "Linux", "Windows"}
    ELSE call.outs.lookup[tool] = "ok"

\* C16: a tool is a member of the detection result exactly if a path of it
\* (or its executable on PATH) was found, whatever its version probe did; a
\* probe that exits non-zero, cannot be launched or raises only leaves the
\* version of the tool unknown (None).
C16_ProbeDegradation ==
    call.op = "detect_all" =>
        \A t \in AllTools :
            /\ t \in Keys(Detected) <=> PathFound(t)
            /\ t \in Keys(Detected) /\ t \in ProbedTools =>
                   /\ Get(Detected, t).installed
                   /\ call.outs.probe[t] # "ok" => Get(Detected, t).version = None
                   /\ call.outs.probe[t] = "ok" => Get(Detected, t).version = VersionLine

\* vscode and cline found, both version probes failed, both in the result
C16_Witness ==
    /\ call.op = "detect_all"
    /\ call.outs.probe["vscode"] = "nonzero"
    /\ call.outs.probe["cline"] = "raise"
    /\ {"vscode", "cline"} \subseteq Keys(Detected)
    /\ Get(Detected, "vscode").version = None
    /\ Get(Detected, "cline").version = None

(***************************************************************************)
(* C17.  Install actions that cannot succeed.                              *)
(***************************************************************************)
\* no command is registered for this tool on this OS
NoAction(tool, os) ==
    \/ tool \notin AllTools
    \/ tool \in {"trae", "void"}
    \/ tool \in {"vscode", "vscode_insiders"} /\ os \notin {"Darwin", "Linux"}

\* the elements of tools at the positions in P, in the order of the list
RECURSIVE AtPositions(_, _, _)
AtPositions(tools, P, i) ==
    IF i > Len(tools) THEN <<>>
    ELSE IF i \in P THEN <<tools[i]>> \o AtPositions(tools, P, i + 1)
    ELSE AtPositions(tools, P, i + 1)

\* C17: the install action of a tool succeeds only if a registered command
\* was run and exited 0; an unknown identifier, trae, void and VS Code on
\* Windows or an unrecognised OS are each recorded as failed, the call
\* returning its record all the same; a call with one tool whose install
\* fails records exactly one failure and nothing else.
C17_NoActionIsFailure ==
    [][call'.op = "install_missing_tools" /\ calls' = calls + 1 =>
          LET tools == call'.tools
              good == {i \in 1..Len(tools) :
                          ~NoAction(tools[i], os_type) /\ call'.outs[i] = "ok"}
              ok == Appended(install_results.success, install_results'.success)
              ko == Appended(install_results.failed, install_results'.failed)
          IN  /\ \A t \in AllTools \cup {"unknown"}, out \in CmdOutcomes \cup {"none"} :
                     _install_tool(t, os_type, out)
                         <=> ~NoAction(t, os_type) /\ out = "ok"
              /\ ok = AtPositions(tools, good, 1)
              /\ ko = AtPositions(tools, (1..Len(tools)) \ good, 1)
              /\ ret' = install_results'
              /\ Len(tools) = 1 /\ good = {} => ok = <<>> /\ ko = tools]_vars

\* VS Code asked for on Windows, nothing detected: one failure recorded, the
\* call returned
C17_Witness ==
    /\ call.op = "install_missing_tools"
    /\ os_type = "Windows"
    /\ call.tools = <<"vscode">>
    /\ detection_results = {}
    /\ ret = [success |-> <<>>, failed |-> <<"vscode">>, skipped |-> <<>>]
    /\ log = <<Line("install", "vscode", "start"), Line("install", "vscode", "failed")>>

(***************************************************************************)
(* ReferenceSpec: _setup_reference_structure called up to MaxApplies times *)
(* on one ToolInstaller, whatever templates/reference holds, the reference *)
(* directory being absent, uncreatable or already kept by the operator.    *)
(* _get_projects_dir resolves to the same directory in every call (the     *)
(* step creates none of the directories it looks for), so one directory    *)
(* is followed.                                                            *)
(***************************************************************************)
ReferenceInit ==
    /\ os_type \in OsTypes
    /\ \E r \in ReferenceTemplates, ro \in BOOLEAN :
           templates = [FullTemplates EXCEPT !.reference = r, !.readonly = ro]
    /\ fs = [d \in ConfigDirs(os_type) |-> AbsentDir]
    /\ reference \in {AbsentReference, LockedReference, UsedReference}
    /\ config_choices = DefaultChoices
    /\ install_results = NewInstallResults
    /\ calls = 0
    /\ call = NoCall
    /\ ret = NoReturn
    /\ log = <<>>
    /\ present = {}
    /\ NewGui

\* installer._setup_reference_structure()
SetupReferenceStructure ==
    /\ calls < MaxApplies
    /\ LET r == _setup_reference_structure(reference, templates)
       IN  /\ reference' = r.ref
           /\ ret' = r.ok
           /\ log' = Append(log, Line("reference", "reference_structure",
                                      IF r.ok THEN "ok" ELSE "failed"))
    /\ calls' = calls + 1
    /\ call' = [op |-> "_setup_reference_structure", tools |-> <<>>, outs |-> <<>>]
    /\ UNCHANGED <<os_type, templates, fs, config_choices, install_results, gui_vars>>

ReferenceNext == SetupReferenceStructure

ReferenceSpec == ReferenceInit /\ [][ReferenceNext]_vars

\* C18: after a successful reference-structure step the reference directory
\* holds the five subdirectories org, tech, security, api and workflow and
\* no other subdirectory, and the step run again on the result succeeds and
\* leaves the same structure.
C18_ReferenceLayout ==
    [][call'.op = "_setup_reference_structure" /\ calls' = calls + 1 =>
          /\ ret' => reference'.exists /\ reference'.subdirs = ReferenceSubdirs
          /\ call.op = "_setup_reference_structure" =>
                 (ret => ret' /\ reference' = reference)]_vars

(***************************************************************************)
(* RepeatSpec: install_missing_tools called up to MaxApplies times on the  *)
(* same ToolInstaller.                                                     *)
(***************************************************************************)
InstallMissingToolsAgain(tools, outs) ==
    /\ calls < MaxApplies
    /\ LET r == install_missing_tools(install_results, tools, outs, os_type)
       IN  /\ install_results' = r.results
           /\ ret' = r.results
           /\ log' = r.log
    /\ calls' = calls + 1
    /\ call' = [op |-> "install_missing_tools", tools |-> tools, outs |-> outs]
    /\ UNCHANGED <<env_vars, config_choices, gui_vars>>

RepeatNext == \E c \in InstallCalls[os_type] : InstallMissingToolsAgain(c[1], c[2])

RepeatSpec == InstallerInit /\ [][RepeatNext]_vars

\* q starts with p
IsPrefix(p, q) == Len(p) <= Len(q) /\ SubSeq(q, 1, Len(p)) = p

\* C19: the result record is empty when a call of the install pass starts,
\* the second call on the same installer included, entries are only appended
\* during the call, and what the call returns holds one entry per tool of
\* its own list, none of an earlier call.
C19_RecordLifecycle ==
    [][call'.op = "install_missing_tools" /\ calls' = calls + 1 =>
          /\ install_results = NewInstallResults
          /\ IsPrefix(install_results.success, install_results'.success)
          /\ IsPrefix(install_results.failed, install_results'.failed)
          /\ Len(ret'.success) + Len(ret'.failed) = Len(call'.tools)]_vars

(***************************************************************************)
(* configurator.py: ConfigurationManager._select_tools_to_configure.  The  *)
(* operator has in mind the tools to be configured (wanted) and answers    *)
(* every question accordingly, in one of a few ways of typing.             *)
(***************************************************************************)
\* str.lower() on the responses considered
Lower(response) ==
    IF response = "Y" THEN "y" ELSE IF response = "N" THEN "n" ELSE response

\* the ways of typing an answer: at once, in capitals, or after a response
\* that is neither y nor n
Styles == {"plain", "capitals", "retry"}

\* what the operator types at one question to say yes or no
Responses(style, yes) ==
    CASE style = "plain" -> <<IF yes THEN "y" ELSE "n">>
      [] style = "capitals" -> <<IF yes THEN "Y" ELSE "N">>
      [] style = "retry" -> <<IF yes THEN "yes" ELSE "no", IF yes THEN "y" ELSE "n">>

\* the loop "while True: response = input(...).lower()": the question is put
\* again until the response is y or n; the value is (response == 'y')
RECURSIVE Ask(_)
Ask(responses) ==
    IF Lower(Head(responses)) \in {"y", "n"} THEN Lower(Head(responses)) = "y"
    ELSE Ask(Tail(responses))

\* self.selected_tools[k] = v
DictSet(dict, k, v) == IF k \in Keys(dict) THEN Set(dict, k, v) ELSE Append(dict, <<k, v>>)

\* the two loops over detection_results['ides'] and ['ai_tools'], from the
\* i-th tool of the registry on: one question per detected tool
RECURSIVE AskDetected(_, _, _, _, _)
AskDetected(selected_tools, i, detected, wanted, style) ==
    IF i > Len(all_tools) THEN selected_tools
    ELSE IF all_tools[i] \in detected
         THEN AskDetected(
                  DictSet(selected_tools, all_tools[i],
                          Ask(Responses(style, all_tools[i] \in wanted))),
                  i + 1, detected, wanted, style)
         ELSE AskDetected(selected_tools, i + 1, detected, wanted, style)

\* _select_tools_to_configure: self.selected_tools and
\* self.config_options["reference_structure"] after it
_select_tools_to_configure(selected_tools, detected, wanted, style, reference_wanted) ==
    [selected_tools |-> AskDetected(selected_tools, 1, detected, wanted, style),
     reference_structure |-> Ask(Responses(style, reference_wanted))]

(***************************************************************************)
(* CliSpec: the tool selection of the command-line configurator, for any   *)
(* detection result and any set of tools the operator wants configured.    *)
(***************************************************************************)
CliInit ==
    /\ os_type \in OsTypes
    /\ templates = FullTemplates
    /\ fs = [d \in ConfigDirs(os_type) |-> AbsentDir]
    /\ reference = AbsentReference
    /\ config_choices = DefaultChoices
    /\ install_results = NewInstallResults
    /\ calls = 0
    /\ call = NoCall
    /\ ret = NoReturn
    /\ log = <<>>
    /\ present \in SUBSET AllTools
    /\ NewGui

SelectToolsToConfigure ==
    /\ calls < MaxCalls
    /\ \E wanted \in SUBSET AllTools, style \in Styles, reference_wanted \in BOOLEAN :
           LET r == _select_tools_to_configure(config_choices.selected_tools,
                        detect_all(present), wanted, style, reference_wanted)
           IN  /\ config_choices' = [config_choices EXCEPT
                                         !.selected_tools = r.selected_tools,
                                         !.reference_structure = r.reference_structure]
               /\ call' = [op |-> "_select_tools_to_configure", tools |-> <<>>,
                           outs |-> [wanted |-> wanted, style |-> style]]
    /\ calls' = calls + 1
    /\ UNCHANGED <<env_vars, install_results, ret, log, gui_vars>>

CliNext == SelectToolsToConfigure

CliSpec == CliInit /\ [][CliNext]_vars

\* C20: in the selection interface every tool the operator wants configured
\* ends up marked configure = true, whether or not it was detected.
C20_ConfigureUndetected ==
    call.op = "_select_tools_to_configure" =>
        \A t \in call.outs.wanted :
            /\ t \in Keys(config_choices.selected_tools)
            /\ Get(config_choices.selected_tools, t)

(***************************************************************************)
(* configurator.py: the security and personality questions of              *)
(* run_interactive_setup.  Each question is put again until the response   *)
(* is '1' or '2' (compared as typed: no strip, no lower).                  *)
(***************************************************************************)
\* what the operator may type at a (1/2) question: a sequence of responses
\* ending with the first one that is accepted
MenuResponses ==
    {<<"1">>, <<"2">>, <<"3", "2">>, <<" 1", "1">>, <<"enhanced", "2">>, <<"", "custom", "1">>}

\* the loop "while True: response = input(...)": the accepted response
RECURSIVE Accepted(_)
Accepted(responses) ==
    IF Head(responses) \in {"1", "2"} THEN Head(responses) ELSE Accepted(Tail(responses))

\* _configure_security_level as it would be if the response typed were kept
\* as the level
_configure_security_level_raw(responses) == Accepted(responses)

\* _configure_security_level: self.security_level after it
_configure_security_level(responses) ==
    IF Accepted(responses) = "1" THEN "standard" ELSE "enhanced"

\* _customize_ai_personality: config_options["ai_personality"] after it
_customize_ai_personality == "default"

\* _configure_ai_personality: config_options["ai_personality"] after it
_configure_ai_personality(responses) ==
    IF Accepted(responses) = "1" THEN "default" ELSE _customize_ai_personality

(***************************************************************************)
(* WizardSpec: one session of either wizard.  A session of the GUI is the  *)
(* machine of Spec; a session of the command-line wizard is                *)
(* run_interactive_setup from the security question on (call.op is the     *)
(* question answered last): security level, personality, confirmation.     *)
(***************************************************************************)
CliSetupInit ==
    /\ os_type \in OsTypes
    /\ templates = FullTemplates
    /\ fs = [d \in ConfigDirs(os_type) |-> AbsentDir]
    /\ reference = AbsentReference
    /\ config_choices = DefaultChoices
    /\ install_results = NewInstallResults
    /\ calls = 0
    /\ call = [op |-> "run_interactive_setup", tools |-> <<>>, outs |-> <<>>]
    /\ ret = NoReturn
    /\ log = <<>>
    /\ present \in SUBSET FocusTools
    /\ NewGui

\* the session is one of the command-line wizard
InCli == call.op # "none"

ConfigureSecurityLevel ==
    /\ call.op = "run_interactive_setup"
    /\ \E responses \in MenuResponses :
           /\ config_choices' = [config_choices EXCEPT
                                     !.security_level = _configure_security_level(responses)]
           /\ call' = [op |-> "_configure_security_level", tools |-> <<>>, outs |-> responses]
    /\ calls' = calls + 1
    /\ UNCHANGED <<env_vars, install_results, ret, log, gui_vars>>

ConfigureAiPersonality ==
    /\ call.op = "_configure_security_level"
    /\ \E responses \in MenuResponses :
           /\ config_choices' = [config_choices EXCEPT
                                     !.ai_personality = _configure_ai_personality(responses)]
           /\ call' = [op |-> "_configure_ai_personality", tools |-> <<>>, outs |-> responses]
    /\ calls' = calls + 1
    /\ UNCHANGED <<env_vars, install_results, ret, log, gui_vars>>

\* _confirm_selections and the return of run_interactive_setup: 'y' returns
\* the choices, 'n' ends the process (sys.exit(0))
ConfirmSelections ==
    /\ call.op = "_configure_ai_personality"
    /\ \E response \in {"y", "n"} :
           /\ call' = [op |-> "_confirm_selections", tools |-> <<>>, outs |-> <<response>>]
           /\ ret' = IF response = "y"
                     THEN [security_level |-> config_choices.security_level,
                           ai_personality |-> config_choices.ai_personality]
                     ELSE NoReturn
    /\ calls' = calls + 1
    /\ UNCHANGED <<env_vars, config_choices, install_results, log, gui_vars>>

CliSetupNext ==
    \/ ConfigureSecurityLevel
    \/ ConfigureAiPersonality
    \/ ConfirmSelections

WizardInit == GuiInit \/ CliSetupInit

WizardNext ==
    \/ ~InCli /\ Next
    \/ CliSetupNext

WizardSpec == WizardInit /\ [][WizardNext]_vars

\* C21: the security tier of the selection state starts as 'standard' and
\* is one of 'standard' and 'enhanced' after any sequence of inputs of
\* either wizard: the committed value the executor consumes (in the
\* command-line wizard also the one run_interactive_setup returns), and in
\* the GUI the value of the radio buttons it is committed from.
C21_SecurityTier ==
    /\ config_choices.security_level \in {"standard", "enhanced"}
    /\ security_var \in {"standard", "enhanced"}
    /\ calls = 0 /\ events = 0 => config_choices.security_level = "standard"
    /\ call.op = "_confirm_selections" /\ call.outs = <<"y">> =>
           ret.security_level \in {"standard", "enhanced"}

\* the command-line wizard asked twice before '2' was accepted
C21_Witness ==
    /\ call.op = "_configure_security_level"
    /\ call.outs = <<"3", "2">>
    /\ config_choices.security_level = "enhanced"

(***************************************************************************)
(* installer.py: _get_projects_dir.  ProjectsSpec calls it on a home       *)
(* directory whose three candidate entries are of any kind.                *)
(***************************************************************************)
Home == <<"~">>

common_dirs == << <<"~", "projects">>, <<"~", "Documents", "projects">>, <<"~", "dev">> >>

\* what may be found under a candidate path
EntryKinds == {"absent", "file", "directory", "link_to_directory", "broken_link"}

\* os.path.exists and os.path.isdir (both follow symbolic links)
exists(kind) == kind \in {"file", "directory", "link_to_directory"}

isdir(kind) == kind \in {"directory", "link_to_directory"}

\* the loop over common_dirs from position i, projects_dir being the value
\* assigned so far
RECURSIVE ProjectsLoop(_, _, _)
ProjectsLoop(entries, i, projects_dir) ==
    IF i > Len(common_dirs) THEN projects_dir
    ELSE IF exists(entries[common_dirs[i]]) /\ isdir(entries[common_dirs[i]])
         THEN common_dirs[i]
         ELSE ProjectsLoop(entries, i + 1, projects_dir)

\* the same loop as it would be without the break
RECURSIVE ProjectsLoopNoBreak(_, _, _)
ProjectsLoopNoBreak(entries, i, projects_dir) ==
    IF i > Len(common_dirs) THEN projects_dir
    ELSE IF exists(entries[common_dirs[i]]) /\ isdir(entries[common_dirs[i]])
         THEN ProjectsLoopNoBreak(entries, i + 1, common_dirs[i])
         ELSE ProjectsLoopNoBreak(entries, i + 1, projects_dir)

_get_projects_dir_last(entries) == ProjectsLoopNoBreak(entries, 1, Home)

_get_projects_dir(entries) == ProjectsLoop(entries, 1, Home)

ProjectsInit ==
    /\ os_type \in OsTypes
    /\ templates = FullTemplates
    /\ fs \in [{common_dirs[i] : i \in 1..Len(common_dirs)} -> EntryKinds]
    /\ reference = AbsentReference
    /\ config_choices = DefaultChoices
    /\ install_results = NewInstallResults
    /\ calls = 0
    /\ call = NoCall
    /\ ret = NoReturn
    /\ log = <<>>
    /\ present = {}
    /\ NewGui

GetProjectsDir ==
    /\ calls < MaxCalls
    /\ calls' = calls + 1
    /\ call' = [op |-> "_get_projects_dir", tools |-> <<>>, outs |-> <<>>]
    /\ ret' = _get_projects_dir(fs)
    /\ UNCHANGED <<env_vars, config_choices, install_results, log, gui_vars>>

ProjectsSpec == ProjectsInit /\ [][GetProjectsDir]_vars

\* candidate i is an existing directory
IsDirectory(i) == fs[common_dirs[i]] \in {"directory", "link_to_directory"}

\* C22: the projects directory returned is the first of ~/projects,
\* ~/Documents/projects, ~/dev (in this order) that is an existing
\* directory, the home directory when none of them is, and never absent.
C22_ProjectsDir ==
    call.op = "_get_projects_dir" =>
        /\ ret # <<None>>
        /\ \/ \E i \in 1..3 : /\ IsDirectory(i)
                              /\ \A j \in 1..(i - 1) : ~IsDirectory(j)
                              /\ ret = common_dirs[i]
           \/ /\ \A i \in 1..3 : ~IsDirectory(i)
              /\ ret = <<"~">>

\* ~/projects is a plain file, the two others are directories: the second
\* candidate is returned
C22_Witness ==
    /\ call.op = "_get_projects_dir"
    /\ fs[<<"~", "projects">>] = "file"
    /\ fs[<<"~", "Documents", "projects">>] = "directory"
    /\ fs[<<"~", "dev">>] = "directory"
    /\ ret = <<"~", "Documents", "projects">>

\* the tool-specific overrides of configs/<tool> are all in directory dir
OverridesCopied(dir, tpl) ==
    /\ dir.exists
    /\ \A f \in tpl.configs.files : dir.files[f] = "tool"
    /\ tpl.configs.subdir => dir.subdir = "tool"

\* C23: every write of a layer into a tool's configuration directory is
\* preceded, in the same configure action, by the creation of that
\* directory: for a tool whose configuration directory is resolvable, does
\* not exist yet and can be created, a configure action whose only existing
\* layer source is the tool-specific override tree creates the directory,
\* copies the overrides and returns True.
C23_DirectoryBeforeWrite ==
    [][Configures =>
           LET tool == call'.tools[1]
               d == _get_tool_config_dir(tool, os_type)
           IN  /\ d # <<None>>
               /\ ~templates.rules
               /\ config_choices.security_level \notin templates.security
               /\ templates.configs.exists
               /\ ~fs[d].exists /\ fs[d].writable
               => ret' /\ OverridesCopied(fs'[d], templates)]_vars

\* how often name is in config_results
Recorded(name) == Count(ret.success, name) + Count(ret.failed, name)

\* C24: after one call of apply_configurations every tool with
\* selected=true is in exactly one of the lists success and failed, exactly
\* once; no tool with selected=false (and nothing that is not a key of the
\* selection) is in either; 'reference_structure' is in exactly one list,
\* once, if and only if the flag is set.
C24_ResultPartition ==
    call.op = "apply_configurations" =>
        /\ \A i \in 1..Len(config_choices.selected_tools) :
               Recorded(config_choices.selected_tools[i][1])
                   = IF config_choices.selected_tools[i][2] THEN 1 ELSE 0
        /\ \A t \in (AllTools \cup ConfigInputs) \ Keys(config_choices.selected_tools) :
               Recorded(t) = 0
        /\ Recorded("reference_structure") = IF config_choices.reference_structure THEN 1 ELSE 0
        /\ Len(ret.success) + Len(ret.failed)
               = Len(SelectedTools) + IF config_choices.reference_structure THEN 1 ELSE 0

\* vscode was selected and failed, cline was in the selection with
\* selected=false, the reference structure was set up
C24_Witness ==
    /\ call.op = "apply_configurations"
    /\ config_choices.selected_tools = << <<"vscode", TRUE>>, <<"cline", FALSE>> >>
    /\ config_choices.reference_structure
    /\ ret.failed = <<"vscode">>
    /\ ret.success = <<"reference_structure">>

\* a run has been made in this session (only the run enables the
\* installation tab)
RunCompleted == tab_state[4] = "normal"

\* C26: the install/configure run is executed at most once per wizard
\* session: after a run has completed, no click on Next, Back or a tab
\* starts a run that executes install actions for the same selection a
\* second time.
C26_RunAtMostOnce ==
    [][RunStarts /\ RunCompleted
           /\ config_choices'.tools_to_install = config_choices.tools_to_install
           => Starts(log', "install") = {}]_vars

\* C27: after any sequence of clicks on Next, Back and tabs the footer
\* button is bound to finish exactly when the Summary tab is the selected
\* one, so that from the Summary tab the wizard can always be finished.
C27_FinishBinding ==
    ~destroyed => (next_button = "finish" <=> current_tab = 5)

(***************************************************************************)
(* EventLoopSpec: the wizard with start_detection opened at its call of    *)
(* self.root.update().  Tk handles there every event that is pending, so   *)
(* the callbacks of clicks made in the meantime run inside start_detection *)
(* before detect_all is called.  call.op = "start_detection" says that the *)
(* callback is at that point; calls counts the calls of detect_all that    *)
(* have returned.  One start_detection is open at a time, and the other    *)
(* callbacks are the steps of Spec.                                        *)
(***************************************************************************)
DetectionPending == call.op = "start_detection"

\* go_next on the welcome tab, start_detection up to self.root.update()
BeginDetection ==
    /\ Click
    /\ next_button = "go_next"
    /\ current_tab = 0
    /\ ~DetectionPending
    /\ tab_state' = [tab_state EXCEPT ![1] = "normal"]
    /\ current_tab' = 1
    /\ back_button' = "normal"
    /\ call' = [op |-> "start_detection", tools |-> <<>>, outs |-> <<>>]
    /\ UNCHANGED <<env_vars, config_choices, install_results, calls, ret, log, present,
                   next_button, detection_results, selection_vars, settings_vars,
                   summary_text, dialog, destroyed>>

\* start_detection from the return of self.root.update() on: detect_all
EndDetection ==
    /\ DetectionPending
    /\ detection_results' = detect_all(present)
    /\ call' = NoCall
    /\ calls' = calls + 1
    /\ UNCHANGED <<env_vars, config_choices, install_results, ret, log, present,
                   notebook_vars, selection_vars, settings_vars, summary_text, dialog,
                   destroyed, events>>

EventLoopNext ==
    \/ BeginDetection
    \/ EndDetection
    \/ current_tab # 0 /\ go_next
    \/ go_back
    \/ \E i \in Tabs : SelectTab(i)
    \/ \E t \in FocusTools : ToggleConfigure(t)
    \/ \E t \in FocusTools : ToggleInstall(t)
    \/ SelectAllConfig
    \/ SelectAllInstall
    \/ ClearAll
    \/ \E level \in SecurityLevels : SelectSecurity(level)
    \/ SelectDefaultPersonality
    \/ show_custom_personality_dialog
    \/ ToggleReference
    \/ finish

EventLoopSpec == GuiInit /\ [][EventLoopNext]_vars

\* the step leaves tab i - 1 for tab i through the Next button
LeftThroughNext(i) ==
    /\ current_tab = i - 1
    /\ current_tab' = i
    /\ next_button = "go_next"
    /\ events' = events + 1

\* C25: for any sequence of clicks on Next, Back and tabs, the run starts
\* only after detect_all has returned at least once, the tool selection has
\* been committed and then the settings; a tab becomes enabled only in the
\* step that leaves the tab before it through Next, and an enabled tab is
\* never disabled again.
C25_WizardGating ==
    [][/\ RunStarts =>
              /\ calls >= 1
              /\ config_choices.selected_tools # <<>>
              /\ config_choices'.security_level = security_var
              /\ config_choices'.ai_personality = ai_var
              /\ config_choices'.reference_structure = ref_var
       /\ \A i \in 1..5 :
              tab_state'[i] # tab_state[i] =>
                  tab_state'[i] = "normal" /\ LeftThroughNext(i)]_vars

\* C28: the personality profile the executor consumes is always
\* 'default': in the command-line wizard whether option 1 or option 2 is
\* chosen, in the GUI after any clicks on the radio buttons ('Custom'
\* included) followed by Next.
C28_PersonalityDefault ==
    /\ config_choices.ai_personality = "default"
    /\ call.op = "_confirm_selections" /\ call.outs = <<"y">> =>
           ret.ai_personality = "default"

\* the GUI made the run after 'Custom' had been clicked
C28_Witness ==
    /\ ~InCli
    /\ dialog # <<>> /\ dialog[1] = "Custom Personality"
    /\ current_tab = 4
    /\ summary_text # <<>>
    /\ config_choices.ai_personality = "default"

(***************************************************************************)
(* detector.py: detect_conda_environments and detect_vscode_extensions,    *)
(* and detect_all called again on the same EnvironmentDetector.            *)
(***************************************************************************)
\* the last component of a path or of a dotted identifier
LastPart(parts) == parts[Len(parts)]

\* what conda does on the machine: the PATH lookup of "conda", the run of
\* `conda env list --json` ("raise" covers output that is not JSON) and the
\* environments it lists, each a path in components
CondaStates ==
    { [lookup |-> "nonzero", run |-> "ok", envs |-> <<>>],
      [lookup |-> "ok", run |-> "nonzero", envs |-> <<>>],
      [lookup |-> "ok", run |-> "raise", envs |-> <<>>],
      [lookup |-> "ok", run |-> "ok", envs |-> <<>>],
      [lookup |-> "ok", run |-> "ok", envs |-> << <<"opt", "conda">> >>],
      [lookup |-> "ok", run |-> "ok", envs |-> << <<"opt", "conda">>, <<"opt", "conda", "envs", "ml">> >>] }

\* what `code --list-extensions` does: its outcome and the identifiers it
\* prints, each in its dotted components
CodeStates ==
    { [run |-> "nonzero", ids |-> <<>>],
      [run |-> "raise", ids |-> <<>>],
      [run |-> "ok", ids |-> <<>>],
      [run |-> "ok", ids |-> << <<"ms-python", "python">> >>] }

\* detect_conda_environments: self.conda_environments after it
detect_conda_environments(conda_environments, conda) ==
    IF _find_executable(conda.lookup) = None THEN conda_environments
    ELSE IF conda.run = "raise" THEN conda_environments
    ELSE IF conda.run = "ok"
         THEN [i \in 1..Len(conda.envs) |->
                  [name |-> LastPart(conda.envs[i]), path |-> conda.envs[i]]]
         ELSE conda_environments

\* detect_vscode_extensions: self.vscode_extensions after it
detect_vscode_extensions(vscode_extensions, os, on_disk, code) ==
    IF _find_installations("vscode", os, on_disk) = <<>> THEN vscode_extensions
    ELSE IF code.run = "raise" THEN vscode_extensions
    ELSE IF code.run = "ok"
         THEN [i \in 1..Len(code.ids) |-> [id |-> code.ids[i], name |-> LastPart(code.ids[i])]]
         ELSE vscode_extensions

\* EnvironmentDetector.__init__, in the shape detect_all returns the
\* attributes: detected_tools.get("ides", {}), detected_tools.get("ai_tools",
\* {}), conda_environments, vscode_extensions
NewDetector ==
    [ides |-> <<>>, ai_tools |-> <<>>, conda_environments |-> <<>>, vscode_extensions |-> <<>>]

\* detect_all on a detector whose attributes are as in "attributes", on a
\* machine m: the four fields it returns, which are the attributes after it
detect_all_fields(attributes, os, m) ==
    [ides |-> detect_ides(os, m.on_disk, m.probe),
     ai_tools |-> detect_ai_tools(m.lookup, m.probe),
     conda_environments |-> detect_conda_environments(attributes.conda_environments, m.conda),
     vscode_extensions |->
         detect_vscode_extensions(attributes.vscode_extensions, os, m.on_disk, m.code)]

(***************************************************************************)
(* RescanSpec: detect_all called up to MaxApplies times on one detector,   *)
(* the machine being any of Machines at each call.  ret holds what the     *)
(* last call returned; the lists in it are the detector's own attributes,  *)
(* so ret is also the state the next call starts from.  call.outs is the   *)
(* machine of the last call.                                               *)
(***************************************************************************)
\* the IDEs on disk and the assistants on PATH at a call; every version
\* probe that is run succeeds
RescanDisks == {{}, {"vscode"}, {"vscode", "trae"}}

RescanLookups == {[t \in AiTools |-> "nonzero"], [t \in AiTools |-> IF t = "cline" THEN "ok" ELSE "nonzero"]}

Machines(os) ==
    {[on_disk |-> d, lookup |-> l, conda |-> c, code |-> x,
      probe |-> [t \in ProbedTools |->
                    IF t \in AiTools
                    THEN IF _find_executable(l[t]) = None THEN "none" ELSE "ok"
                    ELSE IF _find_installations(t, os, d) = <<>> THEN "none" ELSE "ok"]] :
        d \in RescanDisks, l \in RescanLookups, c \in CondaStates, x \in CodeStates}

RescanInit ==
    /\ os_type \in OsTypes
    /\ templates = FullTemplates
    /\ fs = [d \in ConfigDirs(os_type) |-> AbsentDir]
    /\ reference = AbsentReference
    /\ config_choices = DefaultChoices
    /\ install_results = NewInstallResults
    /\ calls = 0
    /\ call = NoCall
    /\ ret = NewDetector
    /\ log = <<>>
    /\ present = {}
    /\ NewGui

DetectAllAgain ==
    /\ calls < MaxApplies
    /\ calls' = calls + 1
    /\ \E m \in Machines(os_type) :
           /\ ret' = detect_all_fields(ret, os_type, m)
           /\ call' = [op |-> "detect_all", tools |-> <<>>, outs |-> m]
    /\ UNCHANGED <<env_vars, config_choices, install_results, log, gui_vars>>

RescanSpec == RescanInit /\ [][DetectAllAgain]_vars

\* what the machine of the last call had: the conda environments that could
\* be listed, the extensions that could be listed
ListedEnvs ==
    IF call.outs.conda.lookup = "ok" /\ call.outs.conda.run = "ok"
    THEN call.outs.conda.envs ELSE <<>>

ListedExtensions ==
    IF os_type \in {"Darwin", "Linux", "Windows"} /\ "vscode" \in call.outs.on_disk
           /\ call.outs.code.run = "ok"
    THEN call.outs.code.ids ELSE <<>>

\* C29: detection results carry nothing over between calls: after any call
\* of detect_all on a detector, the first or a later one, every field
\* (ides, ai_tools, conda_environments, vscode_extensions) holds only what
\* was found during that call; what was found by an earlier call and is no
\* longer present, or can no longer be listed, is not in it.
C29_NoCarryOver ==
    call.op = "detect_all" =>
        /\ Keys(ret.ides) =
               {t \in IdeTools : os_type \in {"Darwin", "Linux", "Windows"} /\ t \in call.outs.on_disk}
        /\ Keys(ret.ai_tools) = {t \in AiTools : call.outs.lookup[t] = "ok"}
        /\ [i \in 1..Len(ret.conda_environments) |-> ret.conda_environments[i].path] = ListedEnvs
        /\ [i \in 1..Len(ret.vscode_extensions) |-> ret.vscode_extensions[i].id] = ListedExtensions

\* the step is a second resolution in a row, for another registered tool
ResolvesAnother ==
    /\ call.op = "_get_tool_config_dir"
    /\ call'.op = "_get_tool_config_dir"
    /\ calls' = calls + 1
    /\ call.tools[1] \in AllTools
    /\ call'.tools[1] \in AllTools
    /\ call'.tools # call.tools

\* C30: on each OS family any two different registered tools resolve to
\* different configuration directories, neither inside the other, so that
\* the configure actions of different tools never write into the same
\* directory; on an unrecognised OS this holds for the tools that resolve
\* to a directory at all.
C30_DistinctConfigDirs ==
    [][ResolvesAnother =>
           /\ os_type \in {"Darwin", "Linux", "Windows"} => ret # <<None>> /\ ret' # <<None>>
           /\ ret # <<None>> /\ ret' # <<None>> =>
                  /\ ret' # ret
                  /\ ~IsPrefix(ret, ret')
                  /\ ~IsPrefix(ret', ret)]_vars

\* vscode and then vscode_insiders were resolved on Linux
C30_Witness ==
    /\ os_type = "Linux"
    /\ calls = 2
    /\ log = <<>>
    /\ call.op = "_get_tool_config_dir"
    /\ call.tools = <<"vscode_insiders">>
    /\ ret = <<"~", ".config", "Code - Insiders", "User">>

====
